---- MODULE Spec2Model ----
(***************************************************************************)
(* Model of the SubagentStop hook of the backend-toolbox plugin            *)
(* (plugins/backend-toolbox/scripts/auto-save-signal-on-stop.py).          *)
(*                                                                         *)
(* Text is modelled as a sequence of characters (one-character strings;   *)
(* "U+0060" stands for the backtick, "U+0022" for the double quote and     *)
(* "U+017F" for the single character LATIN SMALL LETTER LONG S).           *)
(* The functions of the hook are operators over such sequences, written    *)
(* from the Python source; the specifications below feed them texts and    *)
(* logs assembled from small lexicons.                                     *)
(***************************************************************************)
EXTENDS Integers, Sequences, FiniteSets, TLC

(***************************************************************************)
(* Literals of the source.                                                 *)
(***************************************************************************)
TASK_ID_MARK ==
    <<"T", "A", "S", "K", "_", "I", "D", ":">>
REPORT_TYPE_MARK ==
    <<"r", "e", "p", "o", "r", "t", "T", "y", "p", "e", ":">>
HASHES ==
    <<"#", "#">>
OUTPUT_WORD ==
    <<"O", "u", "t", "p", "u", "t">>
FAMILY_PREFIX ==
    <<"b", "a", "c", "k", "e", "n", "d", "-", "t", "o", "o", "l", "b", "o", "x", ":">>
STATUS_MARK ==
    <<"S", "T", "A", "T", "U", "S", ":">>
PASSED_UC ==
    <<"P", "A", "S", "S", "E", "D">>
FAILED_UC ==
    <<"F", "A", "I", "L", "E", "D">>
PASSED_LC ==
    <<"p", "a", "s", "s", "e", "d">>
FAILED_LC ==
    <<"f", "a", "i", "l", "e", "d">>
AGENT_ID_LABEL ==
    <<"a", "g", "e", "n", "t", "I", "d", ":", " ">>
ERROR_PREFIX ==
    <<"E", "R", "R", "O", "R", ":", " ">>
DEFAULT_PASSED_SUMMARY ==
    <<"A", "g", "e", "n", "t", " ", "c", "o", "m", "p", "l", "e", "t", "e", "d", " ",
      "s", "u", "c", "c", "e", "s", "s", "f", "u", "l", "l", "y">>
DEFAULT_FAILED_SUMMARY ==
    <<"A", "g", "e", "n", "t", " ", "r", "e", "p", "o", "r", "t", "e", "d", " ",
      "f", "a", "i", "l", "u", "r", "e">>
GENERIC_ERROR_SUMMARY ==
    <<"E", "R", "R", "O", "R", ":", " ", "A", "g", "e", "n", "t", " ", "e", "n", "c",
      "o", "u", "n", "t", "e", "r", "e", "d", " ", "i", "s", "s", "u", "e", "s", " ",
      "(", "a", "u", "t", "o", "-", "d", "e", "t", "e", "c", "t", "e", "d", ")">>
NO_STATUS_SUMMARY ==
    <<"A", "g", "e", "n", "t", " ", "c", "o", "m", "p", "l", "e", "t", "e", "d", " ",
      "(", "n", "o", " ", "e", "x", "p", "l", "i", "c", "i", "t", " ", "s", "t", "a",
      "t", "u", "s", " ", "f", "o", "u", "n", "d", ",", " ", "a", "s", "s", "u", "m",
      "i", "n", "g", " ", "s", "u", "c", "c", "e", "s", "s", ")">>
failure_indicators ==
    << <<"e", "r", "r", "o", "r", ":">>,
       <<"f", "a", "i", "l", "e", "d", ":">>,
       <<"e", "x", "c", "e", "p", "t", "i", "o", "n", ":">>,
       <<"t", "r", "a", "c", "e", "b", "a", "c", "k", ":">>,
       <<"c", "o", "u", "l", "d", " ", "n", "o", "t">>,
       <<"u", "n", "a", "b", "l", "e", " ", "t", "o">>,
       <<"c", "a", "n", "n", "o", "t", " ", "f", "i", "n", "d">>,
       <<"n", "o", "t", " ", "f", "o", "u", "n", "d">>,
       <<"a", "s", "s", "e", "r", "t", "i", "o", "n", " ", "e", "r", "r", "o", "r">>,
       <<"t", "e", "s", "t", " ", "f", "a", "i", "l", "e", "d">>,
       <<"t", "e", "s", "t", "s", " ", "f", "a", "i", "l", "e", "d">> >>

\* The absent value of a field (Python's None): a sequence that is no text,
\* since "None" is no character.
None ==
    <<"None">>

(***************************************************************************)
(* Python's str operations on character sequences.                         *)
(***************************************************************************)
\* The characters matched by \s and removed by str.strip().
SpaceChars ==
    {" ", "\n", "\t"}

IsSpace(c) ==
    c \in SpaceChars

\* The characters of the class [`"] and of str.strip('`"').
QuoteChars ==
    {"U+0060", "U+0022"}

LowerMap ==
    ("A" :> "a") @@ ("B" :> "b") @@ ("C" :> "c") @@ ("D" :> "d") @@ ("E" :> "e") @@
    ("F" :> "f") @@ ("G" :> "g") @@ ("H" :> "h") @@ ("I" :> "i") @@ ("J" :> "j") @@
    ("K" :> "k") @@ ("L" :> "l") @@ ("M" :> "m") @@ ("N" :> "n") @@ ("O" :> "o") @@
    ("P" :> "p") @@ ("Q" :> "q") @@ ("R" :> "r") @@ ("S" :> "s") @@ ("T" :> "t") @@
    ("U" :> "u") @@ ("V" :> "v") @@ ("W" :> "w") @@ ("X" :> "x") @@ ("Y" :> "y") @@
    ("Z" :> "z")

\* str.upper() maps the long s to "S"; str.lower() leaves it as it is.
UpperMap ==
    ("a" :> "A") @@ ("b" :> "B") @@ ("c" :> "C") @@ ("d" :> "D") @@ ("e" :> "E") @@
    ("f" :> "F") @@ ("g" :> "G") @@ ("h" :> "H") @@ ("i" :> "I") @@ ("j" :> "J") @@
    ("k" :> "K") @@ ("l" :> "L") @@ ("m" :> "M") @@ ("n" :> "N") @@ ("o" :> "O") @@
    ("p" :> "P") @@ ("q" :> "Q") @@ ("r" :> "R") @@ ("s" :> "S") @@ ("t" :> "T") @@
    ("u" :> "U") @@ ("v" :> "V") @@ ("w" :> "W") @@ ("x" :> "X") @@ ("y" :> "Y") @@
    ("z" :> "Z") @@ ("U+017F" :> "S")

LowerChar(c) ==
    IF c \in DOMAIN LowerMap THEN LowerMap[c] ELSE c

UpperChar(c) ==
    IF c \in DOMAIN UpperMap THEN UpperMap[c] ELSE c

\* s.lower()
Lower(s) ==
    [i \in 1..Len(s) |-> LowerChar(s[i])]

\* s.upper()
Upper(s) ==
    [i \in 1..Len(s) |-> UpperChar(s[i])]

\* Whether pattern character p matches text character c under re.IGNORECASE:
\* the two have a common case variant (so "S" and "s" both match the long s).
CaseEq(c, p) ==
    \/ c = p
    \/ LowerChar(c) = LowerChar(p)
    \/ UpperChar(c) = UpperChar(p)

MinOf(S) ==
    CHOOSE x \in S : \A y \in S : x <= y

MaxOf(S) ==
    CHOOSE x \in S : \A y \in S : x >= y

\* Whether p occurs in s starting at index i (1-based).
MatchAt(s, i, p) ==
    /\ i >= 1
    /\ i + Len(p) - 1 <= Len(s)
    /\ \A k \in 1..Len(p) : s[i + k - 1] = p[k]

\* MatchAt under re.IGNORECASE.
MatchAtCI(s, i, p) ==
    /\ i >= 1
    /\ i + Len(p) - 1 <= Len(s)
    /\ \A k \in 1..Len(p) : CaseEq(s[i + k - 1], p[k])

\* The index of the first occurrence of p in s at or after from, 0 when none
\* (s.find(p, from - 1) + 1).
Find(s, p, from) ==
    LET I == {i \in from..(Len(s) - Len(p) + 1) : MatchAt(s, i, p)}
    IN  IF I = {} THEN 0 ELSE MinOf(I)

\* p in s
Contains(s, p) ==
    Find(s, p, 1) # 0

\* s.startswith(p)
StartsWith(s, p) ==
    MatchAt(s, 1, p)

\* s[:n]
Take(s, n) ==
    SubSeq(s, 1, IF n < Len(s) THEN n ELSE Len(s))

\* s[i-1:] for a 1-based i
From(s, i) ==
    SubSeq(s, i, Len(s))

\* The number of leading characters of s, from index i on, that lie in C.
Span(s, i, C) ==
    LET stop == {j \in i..Len(s) : s[j] \notin C}
    IN  IF stop # {} THEN MinOf(stop) - i
        ELSE IF i <= Len(s) THEN Len(s) - i + 1 ELSE 0

\* The number of leading characters of s, from index i on, that lie outside C.
SpanNot(s, i, C) ==
    LET stop == {j \in i..Len(s) : s[j] \in C}
    IN  IF stop # {} THEN MinOf(stop) - i
        ELSE IF i <= Len(s) THEN Len(s) - i + 1 ELSE 0

\* s.strip(C): the characters of C removed from both ends.
StripChars(s, C) ==
    LET keep == {i \in 1..Len(s) : s[i] \notin C}
    IN  IF keep = {} THEN <<>> ELSE SubSeq(s, MinOf(keep), MaxOf(keep))

\* s.strip()
Strip(s) ==
    StripChars(s, SpaceChars)

\* s.split(sep) for a one-character separator: the sequence of the pieces.
RECURSIVE SplitFrom(_, _, _)
SplitFrom(s, i, sep) ==
    LET n == SpanNot(s, i, {sep})
    IN  IF i + n > Len(s)
        THEN <<SubSeq(s, i, Len(s))>>
        ELSE <<SubSeq(s, i, i + n - 1)>> \o SplitFrom(s, i + n + 1, sep)

Split(s, sep) ==
    SplitFrom(s, 1, sep)

\* s.replace(p, "") for a non-empty p: every non-overlapping occurrence of p,
\* found left to right, removed.
RECURSIVE RemoveAll(_, _)
RemoveAll(s, p) ==
    LET i == Find(s, p, 1)
    IN  IF i = 0
        THEN s
        ELSE SubSeq(s, 1, i - 1) \o RemoveAll(From(s, i + Len(p)), p)

\* The concatenation of a sequence of texts.
RECURSIVE Concat(_)
Concat(ws) ==
    IF ws = <<>> THEN <<>> ELSE Head(ws) \o Concat(Tail(ws))

(***************************************************************************)
(* parse_workflow_context (auto-save-signal-on-stop.py)                    *)
(***************************************************************************)
\* The ways the pattern  TASK_ID:\s*[`"]?(\S+?)[`"]?\s  matches at index i:
\* k whitespace characters, q1 opening quotes (0 or 1), a group of n >= 1
\* non-whitespace characters, q2 closing quotes (0 or 1), one whitespace
\* character.
TaskIdMatchesAt(prompt, i) ==
    IF ~MatchAt(prompt, i, TASK_ID_MARK)
    THEN {}
    ELSE LET a == i + Len(TASK_ID_MARK)
             L == Len(prompt)
         IN  {m \in [k : 0..Span(prompt, a, SpaceChars), q1 : 0..1,
                     n : 1..L, q2 : 0..1] :
                LET b == a + m.k + m.q1
                    c == b + m.n + m.q2
                IN  /\ c <= L
                    /\ m.q1 = 1 => prompt[a + m.k] \in QuoteChars
                    /\ \A j \in b..(b + m.n - 1) : ~IsSpace(prompt[j])
                    /\ m.q2 = 1 => prompt[b + m.n] \in QuoteChars
                    /\ IsSpace(prompt[c])}

\* The match the backtracking engine reports among ms: \s* and both [`"]? are
\* greedy, (\S+?) is lazy, and an earlier quantifier is settled first.
TaskIdPreferred(ms) ==
    CHOOSE m \in ms : \A o \in ms :
        \/ m.k > o.k
        \/ m.k = o.k /\ m.q1 > o.q1
        \/ m.k = o.k /\ m.q1 = o.q1 /\ m.n < o.n
        \/ m.k = o.k /\ m.q1 = o.q1 /\ m.n = o.n /\ m.q2 >= o.q2

\* result["task_id"]: None when re.search finds no match, else group(1) with
\* backticks and double quotes stripped from both ends.
ParseTaskId(prompt) ==
    LET starts == {i \in 1..Len(prompt) : TaskIdMatchesAt(prompt, i) # {}}
    IN  IF starts = {}
        THEN None
        ELSE LET i == MinOf(starts)
                 m == TaskIdPreferred(TaskIdMatchesAt(prompt, i))
                 b == i + Len(TASK_ID_MARK) + m.k + m.q1
             IN  StripChars(SubSeq(prompt, b, b + m.n - 1), QuoteChars)

\* The group of  reportType:\s*(\S+)  matched at index i, <<>> when the pattern
\* does not match there: both quantifiers are greedy and \S+ needs a character,
\* so the group is the whole run of non-whitespace after the whole run of
\* whitespace.
ReportTypeGroupAt(prompt, i) ==
    IF ~MatchAt(prompt, i, REPORT_TYPE_MARK)
    THEN <<>>
    ELSE LET a == i + Len(REPORT_TYPE_MARK)
             b == a + Span(prompt, a, SpaceChars)
         IN  SubSeq(prompt, b, b + SpanNot(prompt, b, SpaceChars) - 1)

\* The index at which the reportType: of  ##\s*Output\s*\n\s*reportType:\s*(\S+)
\* stands when the pattern matches at index i, 0 when it does not: the
\* whitespace between Output and reportType: must hold a newline.
HeadingReportTypeAt(prompt, i) ==
    IF ~MatchAt(prompt, i, HASHES)
    THEN 0
    ELSE LET a == i + Len(HASHES)
             b == a + Span(prompt, a, SpaceChars)
         IN  IF ~MatchAt(prompt, b, OUTPUT_WORD)
             THEN 0
             ELSE LET c == b + Len(OUTPUT_WORD)
                      w == Span(prompt, c, SpaceChars)
                      r == c + w
                  IN  IF /\ \E j \in c..(r - 1) : prompt[j] = "\n"
                         /\ ReportTypeGroupAt(prompt, r) # <<>>
                      THEN r
                      ELSE 0

\* Format 1: the group of the first match of the heading pattern, None when
\* there is none.
HeadingReportType(prompt) ==
    LET starts == {i \in 1..Len(prompt) : HeadingReportTypeAt(prompt, i) # 0}
    IN  IF starts = {}
        THEN None
        ELSE ReportTypeGroupAt(prompt, HeadingReportTypeAt(prompt, MinOf(starts)))

\* Format 2: the group of the first match of  reportType:\s*(\S+)  anywhere.
InlineReportType(prompt) ==
    LET starts == {i \in 1..Len(prompt) : ReportTypeGroupAt(prompt, i) # <<>>}
    IN  IF starts = {}
        THEN None
        ELSE ReportTypeGroupAt(prompt, MinOf(starts))

\* A variant that tries the inline format before the heading format.
InlineFirstReportType(prompt) ==
    IF InlineReportType(prompt) # None
    THEN InlineReportType(prompt)
    ELSE HeadingReportType(prompt)

\* result["report_type"]: format 1, else format 2.
ParseReportType(prompt) ==
    IF HeadingReportType(prompt) # None
    THEN HeadingReportType(prompt)
    ELSE InlineReportType(prompt)

parse_workflow_context(prompt) ==
    [task_id |-> ParseTaskId(prompt), report_type |-> ParseReportType(prompt)]

(***************************************************************************)
(* The injection hook (extend-subagnet-input-prompt-with-io-tools.py): it  *)
(* parses the prompt of a spawn and puts the I/O contract before it.       *)
(***************************************************************************)
IO_CONTRACT_HEADING ==
    <<"#", "#", " ", "W", "o", "r", "k", "f", "l", "o", "w", " ", "I", "/",
      "O", " ", "C", "o", "n", "t", "r", "a", "c", "t">>

\* result["task_id"] of the hook: the group of the first match of
\* TASK_ID:\s*(\S+) , None when there is none. Both quantifiers are greedy,
\* so the group is the whole run of non-whitespace after the whole run of
\* whitespace.
IoTaskIdGroupAt(prompt, i) ==
    IF ~MatchAt(prompt, i, TASK_ID_MARK)
    THEN <<>>
    ELSE LET a == i + Len(TASK_ID_MARK)
             b == a + Span(prompt, a, SpaceChars)
         IN  SubSeq(prompt, b, b + SpanNot(prompt, b, SpaceChars) - 1)

IoParseTaskId(prompt) ==
    LET starts == {i \in 1..Len(prompt) : IoTaskIdGroupAt(prompt, i) # <<>>}
    IN  IF starts = {}
        THEN None
        ELSE IoTaskIdGroupAt(prompt, MinOf(starts))

\* result["report_type"] of the hook: the heading format only.
IoParseReportType(prompt) ==
    HeadingReportType(prompt)

\* parse_workflow_context of the hook (lines 62-82), without the list of
\* input reports.
io_parse_workflow_context(prompt) ==
    [task_id |-> IoParseTaskId(prompt), report_type |-> IoParseReportType(prompt)]

\* The hook leaves the spawn as it is.
NoInjection ==
    [kind |-> "none", task_id |-> None, report_type |-> None]

\* build_io_block (lines 84-105): nothing without a task_id or a
\* report_type, else the contract that names them.
build_io_block(c) ==
    IF c.task_id = None \/ c.task_id = <<>> \/ c.report_type = None \/ c.report_type = <<>>
    THEN NoInjection
    ELSE [kind |-> "contract", task_id |-> c.task_id, report_type |-> c.report_type]

\* The hook (lines 108-145) for a spawn of role subagent_type whose prompt is
\* a string.
InjectionHook(subagent_type, prompt) ==
    IF ~StartsWith(subagent_type, FAMILY_PREFIX)
    THEN NoInjection
    ELSE IF Contains(prompt, IO_CONTRACT_HEADING)
    THEN NoInjection
    ELSE build_io_block(io_parse_workflow_context(prompt))

(***************************************************************************)
(* The parent log (auto-save-signal-on-stop.py, find_task_call_for_agent). *)
(* A line of the log is one of                                             *)
(*   [kind |-> "blank"]       nothing but whitespace                       *)
(*   [kind |-> "garbage"]     text json.loads rejects                      *)
(*   [kind |-> "nonobject"]   a JSON value that is no object               *)
(*   [kind |-> "record", message_ok, content_ok, content, agentId]         *)
(*       a JSON object: message_ok tells whether "message" is an object,   *)
(*       content_ok whether message.content is a list (a string when not), *)
(*       content is the list of its items and agentId is                   *)
(*       toolUseResult.agentId (<<>> when the record has none).            *)
(* An item of content is                                                   *)
(*   [type |-> "tool_use", id, name, input_ok, subagent_type, prompt]      *)
(*       input_ok tells whether "input" is an object                       *)
(*   [type |-> "tool_result", tool_use_id, text]                           *)
(*       text is the item's content, a string                              *)
(***************************************************************************)
TASK_TOOL ==
    "Task"

\* The record the function starts from: {"subagent_type": "", "prompt": ""}
EmptyRecord ==
    [subagent_type |-> <<>>, prompt |-> <<>>]

\* A dict in insertion order: a sequence of [key, val] with distinct keys.
DictKeys(d) ==
    {d[i].key : i \in DOMAIN d}

DictGet(d, k) ==
    (CHOOSE e \in {d[i] : i \in DOMAIN d} : e.key = k).val

\* d[k] = v: a new key goes last, a key already present keeps its place.
DictSet(d, k, v) ==
    IF k \in DictKeys(d)
    THEN [i \in DOMAIN d |-> IF d[i].key = k THEN [key |-> k, val |-> v] ELSE d[i]]
    ELSE Append(d, [key |-> k, val |-> v])

\* A variant that indexes spawns of every role.
IndexAnyRole(item) ==
    /\ item.name = TASK_TOOL
    /\ Contains(item.prompt, TASK_ID_MARK)
    /\ Contains(item.prompt, REPORT_TYPE_MARK)

\* The condition under which a tool_use item is indexed (lines 247-254).
IsIndexedSpawn(item) ==
    /\ item.name = TASK_TOOL
    /\ StartsWith(item.subagent_type, FAMILY_PREFIX)
    /\ Contains(item.prompt, TASK_ID_MARK)
    /\ Contains(item.prompt, REPORT_TYPE_MARK)

\* One item of message.content (lines 243-274); st is
\* [task_calls, tool_results, raised].
ScanItem(st, item) ==
    IF st.raised
    THEN st
    ELSE IF item.type = "tool_use"
    THEN IF item.name # TASK_TOOL
         THEN st
         ELSE IF ~item.input_ok
         THEN [st EXCEPT !.raised = TRUE]
         ELSE IF IsIndexedSpawn(item)
         THEN [st EXCEPT !.task_calls =
                  DictSet(@, item.id, [subagent_type |-> item.subagent_type,
                                       prompt |-> item.prompt])]
         ELSE st
    ELSE IF item.type = "tool_result" /\ item.tool_use_id # ""
    THEN [st EXCEPT !.tool_results = DictSet(@, item.tool_use_id, item.text)]
    ELSE st

RECURSIVE ScanItems(_, _)
ScanItems(st, items) ==
    IF items = <<>> THEN st ELSE ScanItems(ScanItem(st, Head(items)), Tail(items))

\* The toolUseResult of a record (lines 277-288): every tool_result item of
\* the record is linked to "agentId: <agentId>".
RECURSIVE ScanToolUseResult(_, _, _)
ScanToolUseResult(st, items, agentId) ==
    IF items = <<>>
    THEN st
    ELSE LET item == Head(items)
             st2  == IF item.type = "tool_result" /\ item.tool_use_id # ""
                     THEN [st EXCEPT !.tool_results =
                              DictSet(@, item.tool_use_id, AGENT_ID_LABEL \o agentId)]
                     ELSE st
         IN  ScanToolUseResult(st2, Tail(items), agentId)

\* One line of the log (lines 233-291).
ScanLine(st, line) ==
    IF st.raised
    THEN st
    ELSE IF line.kind \in {"blank", "garbage"}
    THEN st
    ELSE IF line.kind = "nonobject"
    THEN [st EXCEPT !.raised = TRUE]
    ELSE IF ~line.message_ok
    THEN [st EXCEPT !.raised = TRUE]
    ELSE LET st2 == IF line.content_ok THEN ScanItems(st, line.content) ELSE st
         IN  IF st2.raised \/ line.agentId = <<>> \/ ~line.content_ok
             THEN st2
             ELSE ScanToolUseResult(st2, line.content, line.agentId)

RECURSIVE ScanLog(_, _)
ScanLog(st, lines) ==
    IF lines = <<>> THEN st ELSE ScanLog(ScanLine(st, Head(lines)), Tail(lines))

\* The first key of tool_results whose text contains agent_id, "" when none
\* (lines 309-314).
RECURSIVE MatchToolUseId(_, _)
MatchToolUseId(tool_results, agent_id) ==
    IF tool_results = <<>>
    THEN ""
    ELSE IF agent_id # <<>> /\ Contains(Head(tool_results).val, agent_id)
    THEN Head(tool_results).key
    ELSE MatchToolUseId(Tail(tool_results), agent_id)

\* A variant without the fallback of lines 327-331.
SelectMatchedOnly(task_calls, matched) ==
    IF matched # "" /\ matched \in DictKeys(task_calls)
    THEN DictGet(task_calls, matched)
    ELSE EmptyRecord

\* A variant of the choice that falls back only when there is no link: a
\* link to a token outside the index gives the empty record.
SelectUnlinkedOnly(task_calls, matched) ==
    IF matched # ""
    THEN IF matched \in DictKeys(task_calls)
         THEN DictGet(task_calls, matched)
         ELSE EmptyRecord
    ELSE IF task_calls # <<>>
    THEN task_calls[Len(task_calls)].val
    ELSE EmptyRecord

\* The record chosen once the log is scanned (lines 316-331).
SelectTaskCall(task_calls, matched) ==
    IF matched # "" /\ matched \in DictKeys(task_calls)
    THEN DictGet(task_calls, matched)
    ELSE IF task_calls # <<>>
    THEN task_calls[Len(task_calls)].val
    ELSE EmptyRecord

\* The body of the try block (lines 222-339): path is "missing" (no such
\* file), "unreadable" (open fails) or "log" (the parent log).
FindTaskCallBody(path, lines, agent_id) ==
    IF path = "missing"
    THEN [raised |-> FALSE, value |-> EmptyRecord]
    ELSE IF path = "unreadable"
    THEN [raised |-> TRUE, value |-> EmptyRecord]
    ELSE LET st == ScanLog([task_calls |-> <<>>, tool_results |-> <<>>,
                            raised |-> FALSE], lines)
         IN  IF st.raised
             THEN [raised |-> TRUE, value |-> EmptyRecord]
             ELSE [raised |-> FALSE,
                   value  |-> SelectTaskCall(st.task_calls,
                                  MatchToolUseId(st.tool_results, agent_id))]

\* A variant without the except clause of lines 341-342.
FindTaskCallUnguarded(path, lines, agent_id) ==
    FindTaskCallBody(path, lines, agent_id)

\* find_task_call_for_agent: an exception of the body is caught and the
\* record of line 219 is returned; raised tells whether the call raised.
find_task_call_for_agent(path, lines, agent_id) ==
    LET r == FindTaskCallBody(path, lines, agent_id)
    IN  IF r.raised THEN [raised |-> FALSE, value |-> EmptyRecord] ELSE r

\* A variant of a write to the debug trace without its try block: a write that fails raises.
TraceWriteUnguarded(ok, entry) ==
    [raised |-> ~ok, written |-> IF ok THEN <<entry>> ELSE <<>>]

\* One write to the debug trace, in its own try block whose except clause
\* passes (lines 295-305, 320-326, 333-339): nothing is raised, and the
\* entry is written when the write succeeds.
TraceWrite(ok, entry) ==
    [raised |-> FALSE, written |-> IF ok THEN <<entry>> ELSE <<>>]

\* The entry of lines 297-303: how many spawns and acknowledgements the scan
\* found.
FoundEntry(st) ==
    [kind |-> "found", calls |-> Len(st.task_calls),
     results |-> Len(st.tool_results), report_type |-> <<>>]

\* The entry of lines 322-324 or 335-337: the report type of the chosen
\* record, by  reportType:\s*(\S+) ; None stands for "unknown".
ChosenEntry(kind, record) ==
    [kind |-> kind, calls |-> 0, results |-> 0,
     report_type |-> InlineReportType(record.prompt)]

\* The writes to the debug trace of one call (lines 293-339): none when the
\* path does not name a readable log or the scan raised; ok[1] and ok[2] tell
\* which writes succeed. raised tells whether the first write raised: the
\* second one comes after the record is assigned (lines 318, 330).
DebugTrace(path, lines, agent_id, ok) ==
    LET st == ScanLog([task_calls |-> <<>>, tool_results |-> <<>>,
                       raised |-> FALSE], lines)
        matched == MatchToolUseId(st.tool_results, agent_id)
        t1 == TraceWrite(ok[1], FoundEntry(st))
        t2 == IF matched # "" /\ matched \in DictKeys(st.task_calls)
              THEN TraceWrite(ok[2],
                      ChosenEntry("MATCHED", DictGet(st.task_calls, matched)))
              ELSE IF st.task_calls # <<>>
              THEN TraceWrite(ok[2],
                      ChosenEntry("FALLBACK", st.task_calls[Len(st.task_calls)].val))
              ELSE [raised |-> FALSE, written |-> <<>>]
    IN  IF path \in {"missing", "unreadable"} \/ st.raised
        THEN [raised |-> FALSE, written |-> <<>>]
        ELSE IF t1.raised
        THEN [raised |-> TRUE, written |-> t1.written]
        ELSE [raised |-> FALSE, written |-> t1.written \o t2.written]

\* find_task_call_for_agent with its debug trace: the record it returns,
\* which is the record of line 219 when a write to the trace raises into the
\* except clause of lines 341-342, and the entries it wrote.
find_task_call_traced(path, lines, agent_id, ok) ==
    LET t == DebugTrace(path, lines, agent_id, ok)
    IN  [result  |-> IF t.raised
                     THEN [raised |-> FALSE, value |-> EmptyRecord]
                     ELSE find_task_call_for_agent(path, lines, agent_id),
         written |-> t.written]

(***************************************************************************)
(* parse_status_from_transcript (auto-save-signal-on-stop.py)              *)
(***************************************************************************)
\* The index at which the group of  STATUS:\s*(PASSED|FAILED)  starts when the
\* pattern is tried at index i: after the mark and the whitespace behind it.
StatusGroupAt(transcript, i) ==
    i + Len(STATUS_MARK) + Span(transcript, i + Len(STATUS_MARK), SpaceChars)

\* Whether the pattern matches at index i, under re.IGNORECASE.
StatusMatchesAt(transcript, i) ==
    /\ MatchAtCI(transcript, i, STATUS_MARK)
    /\ \/ MatchAtCI(transcript, StatusGroupAt(transcript, i), PASSED_UC)
       \/ MatchAtCI(transcript, StatusGroupAt(transcript, i), FAILED_UC)

\* re.search: the indices at which the pattern matches.
StatusMatches(transcript) ==
    {i \in 1..Len(transcript) : StatusMatchesAt(transcript, i)}

\* status_match.group(1).lower() of the leftmost match.
ExplicitStatus(transcript) ==
    LET g == StatusGroupAt(transcript, MinOf(StatusMatches(transcript)))
    IN  Lower(SubSeq(transcript, g, g + Len(PASSED_UC) - 1))

\* line.split(':', 1)[-1]
AfterFirstColon(line) ==
    LET c == Find(line, <<":">>, 1)
    IN  IF c = 0 THEN line ELSE From(line, c + 1)

\* The summary by default, from the status.
DefaultSummary(status) ==
    IF status = PASSED_LC THEN DEFAULT_PASSED_SUMMARY ELSE DEFAULT_FAILED_SUMMARY

\* The summary of an explicit status: from the first line whose upper-case
\* form holds "STATUS:", the text behind its first colon without the status
\* word when that is longer than 10 characters, else the line before it when
\* that is not blank, else the default; cut to 200 characters.
ExplicitSummary(transcript, status) ==
    LET lines == Split(transcript, "\n")
        I     == {i \in DOMAIN lines : Contains(Upper(lines[i]), STATUS_MARK)}
    IN  IF I = {}
        THEN DefaultSummary(status)
        ELSE LET i == MinOf(I)
                 after_status ==
                     Strip(RemoveAll(AfterFirstColon(lines[i]), Upper(status)))
             IN  IF Len(after_status) > 10
                 THEN Take(after_status, 200)
                 ELSE IF i > 1 /\ Strip(lines[i - 1]) # <<>>
                 THEN Take(Strip(lines[i - 1]), 200)
                 ELSE DefaultSummary(status)

\* A variant of the heuristic whose line is not cut to 100 characters.
HeuristicUncut(transcript) ==
    LET K == {k \in DOMAIN failure_indicators :
                 Contains(Lower(transcript), failure_indicators[k])}
    IN  IF K = {}
        THEN [status |-> PASSED_LC, summary |-> NO_STATUS_SUMMARY]
        ELSE LET word  == RemoveAll(failure_indicators[MinOf(K)], <<":">>)
                 lines == Split(transcript, "\n")
                 I     == {i \in DOMAIN lines : Contains(Lower(lines[i]), word)}
             IN  IF I = {}
                 THEN [status |-> FAILED_LC, summary |-> GENERIC_ERROR_SUMMARY]
                 ELSE [status  |-> FAILED_LC,
                       summary |-> ERROR_PREFIX \o Strip(lines[MinOf(I)])]

\* A variant of the heuristic that reports a failure when it finds no
\* indicator.
HeuristicAlwaysFailed(transcript) ==
    LET K == {k \in DOMAIN failure_indicators :
                 Contains(Lower(transcript), failure_indicators[k])}
    IN  IF K = {}
        THEN [status |-> FAILED_LC, summary |-> GENERIC_ERROR_SUMMARY]
        ELSE [status |-> FAILED_LC, summary |-> GENERIC_ERROR_SUMMARY]

\* The heuristic: the first indicator the lower-case transcript holds, and
\* the first line whose lower-case form holds it without its colon.
HeuristicOutcome(transcript) ==
    LET K == {k \in DOMAIN failure_indicators :
                 Contains(Lower(transcript), failure_indicators[k])}
    IN  IF K = {}
        THEN [status |-> PASSED_LC, summary |-> NO_STATUS_SUMMARY]
        ELSE LET word  == RemoveAll(failure_indicators[MinOf(K)], <<":">>)
                 lines == Split(transcript, "\n")
                 I     == {i \in DOMAIN lines : Contains(Lower(lines[i]), word)}
             IN  IF I = {}
                 THEN [status |-> FAILED_LC, summary |-> GENERIC_ERROR_SUMMARY]
                 ELSE [status  |-> FAILED_LC,
                       summary |-> ERROR_PREFIX
                                     \o Strip(Take(lines[MinOf(I)], 100))]

parse_status_from_transcript(transcript) ==
    IF StatusMatches(transcript) # {}
    THEN [status  |-> ExplicitStatus(transcript),
          summary |-> ExplicitSummary(transcript, ExplicitStatus(transcript))]
    ELSE HeuristicOutcome(transcript)

(***************************************************************************)
(* extract_markdown_sections (auto-save-signal-on-stop.py)                 *)
(***************************************************************************)
FALLBACK_HEAD ==
    <<"#", "#", " ", "A", "g", "e", "n", "t", " ", "O", "u", "t", "p", "u",
      "t", "\n", "\n">>
FALLBACK_NOTE ==
    <<"\n", "\n", ">", " ", "N", "o", "t", "e", ":", " ", "N", "o", " ",
      "s", "t", "r", "u", "c", "t", "u", "r", "e", "d", " ", "m", "a", "r",
      "k", "d", "o", "w", "n", " ", "s", "e", "c", "t", "i", "o", "n", "s",
      " ", "f", "o", "u", "n", "d", ".", " ", "F", "u", "l", "l", " ", "t",
      "r", "a", "n", "s", "c", "r", "i", "p", "t", " ", "i", "n", "c", "l",
      "u", "d", "e", "d", ".">>

\* re.match(r'^##\s+[^#]', line): two hashes, whitespace, and a character
\* that is no hash (which may be the last of the whitespace characters).
IsSectionHeading(line) ==
    /\ MatchAt(line, 1, HASHES)
    /\ \E j \in 4..Len(line) :
          /\ \A k \in 3..(j - 1) : IsSpace(line[k])
          /\ line[j] # "#"

\* "\n".join(lines)
RECURSIVE Join(_)
Join(lines) ==
    IF lines = <<>> THEN <<>>
    ELSE IF Len(lines) = 1 THEN lines[1]
    ELSE lines[1] \o <<"\n">> \o Join(Tail(lines))

\* A variant of the loop in which a top-level heading line ends the section.
RECURSIVE MarkdownLinesEndingAtTopLevel(_, _, _)
MarkdownLinesEndingAtTopLevel(lines, i, in_section) ==
    IF i > Len(lines)
    THEN <<>>
    ELSE IF IsSectionHeading(lines[i])
    THEN <<lines[i]>> \o MarkdownLinesEndingAtTopLevel(lines, i + 1, TRUE)
    ELSE IF in_section /\ StartsWith(lines[i], <<"#">>)
                       /\ ~StartsWith(lines[i], HASHES)
    THEN MarkdownLinesEndingAtTopLevel(lines, i + 1, FALSE)
    ELSE IF in_section
    THEN <<lines[i]>> \o MarkdownLinesEndingAtTopLevel(lines, i + 1, TRUE)
    ELSE MarkdownLinesEndingAtTopLevel(lines, i + 1, FALSE)

\* The loop of lines 70-84: markdown_lines collected from line i on.
RECURSIVE MarkdownLines(_, _, _)
MarkdownLines(lines, i, in_section) ==
    IF i > Len(lines)
    THEN <<>>
    ELSE IF IsSectionHeading(lines[i])
    THEN <<lines[i]>> \o MarkdownLines(lines, i + 1, TRUE)
    ELSE IF in_section
    THEN (IF StartsWith(lines[i], <<"#">>) THEN <<lines[i]>>
          ELSE IF Strip(lines[i]) = <<>> THEN <<lines[i]>>
          ELSE <<lines[i]>>)
         \o MarkdownLines(lines, i + 1, TRUE)
    ELSE MarkdownLines(lines, i + 1, FALSE)

\* content of line 86.
MarkdownContent(transcript) ==
    Strip(Join(MarkdownLines(Split(transcript, "\n"), 1, FALSE)))

\* A variant without the fallback of lines 89-90.
ExtractWithoutFallback(transcript) ==
    IF transcript = <<>>
    THEN <<>>
    ELSE MarkdownContent(transcript)

extract_markdown_sections(transcript) ==
    IF transcript = <<>>
    THEN <<>>
    ELSE IF MarkdownContent(transcript) = <<>>
    THEN FALLBACK_HEAD \o transcript \o FALLBACK_NOTE
    ELSE MarkdownContent(transcript)

(***************************************************************************)
(* parse_agent_transcript and the steps of main                            *)
(* (auto-save-signal-on-stop.py)                                           *)
(***************************************************************************)
\* The text of an entry of the worker's log (lines 380-391): the content
\* when it is a string, the text items of the content followed by "\n" each
\* when it is a list; stripped.
RECURSIVE ItemsText(_)
ItemsText(items) ==
    IF items = <<>>
    THEN <<>>
    ELSE (IF Head(items).type = "text"
          THEN Head(items).text \o <<"\n">>
          ELSE <<>>)
         \o ItemsText(Tail(items))

EntryText(entry) ==
    IF entry.is_str
    THEN Strip(entry.text)
    ELSE Strip(ItemsText(entry.items))

\* One line of the worker's log (lines 368-409); st is
\* [prompt_parts, transcript_lines, raised].
AgentScanLine(st, line) ==
    IF st.raised
    THEN st
    ELSE IF line.kind \in {"blank", "garbage"}
    THEN st
    ELSE IF line.kind = "nonobject"
    THEN [st EXCEPT !.raised = TRUE]
    ELSE LET text == EntryText(line)
             st2  == IF /\ line.type \in {"system", "user"}
                        /\ Contains(text, TASK_ID_MARK)
                        /\ Contains(text, REPORT_TYPE_MARK)
                     THEN [st EXCEPT !.prompt_parts = Append(@, text)]
                     ELSE st
         IN  IF line.type \in {"assistant", "tool_result"} /\ text # <<>>
             THEN [st2 EXCEPT !.transcript_lines = Append(@, text)]
             ELSE st2

RECURSIVE AgentScanLog(_, _)
AgentScanLog(st, lines) ==
    IF lines = <<>>
    THEN st
    ELSE AgentScanLog(AgentScanLine(st, Head(lines)), Tail(lines))

\* parse_agent_transcript: the first prompt part and the joined transcript
\* lines; the record of line 355 when the path does not exist or the scan
\* raised.
parse_agent_transcript(path, lines) ==
    LET st == AgentScanLog([prompt_parts |-> <<>>, transcript_lines |-> <<>>,
                            raised |-> FALSE], lines)
    IN  IF path # "alog" \/ st.raised
        THEN [prompt |-> <<>>, transcript |-> <<>>]
        ELSE [prompt     |-> IF st.prompt_parts = <<>>
                             THEN <<>>
                             ELSE st.prompt_parts[1],
              transcript |-> Join(st.transcript_lines)]

\* A variant of the family check of line 458 that lets every role pass.
AnyRole(subagent_type) ==
    TRUE

\* subagent_type.startswith("backend-toolbox:") (line 458)
IsFamilyRole(subagent_type) ==
    StartsWith(subagent_type, FAMILY_PREFIX)

\* A variant of the choice of line 475 that takes the prompt of the
\* invocation record whatever the worker's log holds.
ChooseTaskPrompt(agent_data, task_info) ==
    task_info.prompt

\* agent_data["prompt"] or task_info["prompt"] (line 475)
ChoosePrompt(agent_data, task_info) ==
    IF agent_data.prompt # <<>> THEN agent_data.prompt ELSE task_info.prompt

\* not ctx["task_id"] or not ctx["report_type"] (line 488)
ContextMissing(c) ==
    \/ c.task_id = None
    \/ c.task_id = <<>>
    \/ c.report_type = None
    \/ c.report_type = <<>>

\* A variant of the wording that looks at the report only.
ActionWordReportOnly(report_existed, signal_existed) ==
    IF report_existed THEN "Updated" ELSE "Auto-saved"

\* "Updated" if (report_existed or signal_existed) else "Auto-saved"
\* (line 523)
ActionWord(report_existed, signal_existed) ==
    IF report_existed \/ signal_existed THEN "Updated" ELSE "Auto-saved"

\* signal_data of save_signal (lines 171-178).
SignalData(task_id, report_type, status, summary) ==
    [taskId |-> task_id, signalType |-> report_type, status |-> status,
     summary |-> summary, autoSaved |-> TRUE]

\* print(json.dumps({})) of the early returns.
EmptyOutput ==
    [kind |-> "empty"]

\* The output of lines 522-548: the message of a success, the error that
\* names the parts that were not saved.
ResultOutput(report_saved, signal_saved, report_existed, signal_existed, report_type, status) ==
    IF report_saved /\ signal_saved
    THEN [kind        |-> "message",
          action      |-> ActionWord(report_existed, signal_existed),
          report_type |-> report_type,
          status      |-> status]
    ELSE [kind        |-> "error",
          parts       |-> (IF report_saved THEN <<>> ELSE <<"report">>)
                          \o (IF signal_saved THEN <<>> ELSE <<"signal">>),
          report_type |-> report_type]

(***************************************************************************)
(* State.                                                                  *)
(***************************************************************************)
VARIABLES
    prompt_pieces,  \* the pieces of the input text of parse_workflow_context
    ctx,            \* what parse_workflow_context returned for it
    ctx_pc,         \* "input" while the text is written, "done" once parsed
    io_out,         \* what the injection hook did with the text
    log,            \* the lines of the parent log
    call,           \* the arguments of the call of find_task_call_for_agent
    result,         \* what the call returned, and whether it raised
    corr_pc,        \* "logging" while the log grows, "done" once resolved
    debug_trace,    \* the entries the call wrote to the debug trace
    transcript_pieces, \* the pieces of the output text of a worker
    outcome,        \* what parse_status_from_transcript returned for it
    out_pc,         \* "input" while the text is written, "done" once parsed
    report_pieces,  \* the pieces of the text of extract_markdown_sections
    report,         \* what extract_markdown_sections returned for it
    rep_pc,         \* "input" while the text is written, "done" once extracted
    reports,        \* the stored reports: (task_id, report_type) -> text
    signals,        \* the stored signals: (task_id, report_type) -> signal data
    writes,         \* the writes to the store so far, in order
    run,            \* per handler process: its position and local variables
    runs_started    \* the number of completion events dispatched so far

ctx_vars ==
    <<prompt_pieces, ctx, ctx_pc, io_out>>

corr_vars ==
    <<log, call, result, corr_pc, debug_trace>>

out_vars ==
    <<transcript_pieces, outcome, out_pc>>

rep_vars ==
    <<report_pieces, report, rep_pc>>

main_vars ==
    <<reports, signals, writes, run, runs_started>>

vars ==
    <<prompt_pieces, ctx, ctx_pc, io_out, log, call, result, corr_pc, debug_trace,
      transcript_pieces, outcome, out_pc, report_pieces, report, rep_pc,
      reports, signals, writes, run, runs_started>>

\* The state of the workflow-context variables when they are not in use.
CtxIdle ==
    /\ prompt_pieces = <<>>
    /\ ctx = [task_id |-> None, report_type |-> None]
    /\ ctx_pc = "input"
    /\ io_out = NoInjection

\* The state of the correlator variables when they are not in use.
CorrIdle ==
    /\ log = <<>>
    /\ call = [path |-> "log", agent_id |-> <<>>]
    /\ result = [raised |-> FALSE, value |-> EmptyRecord]
    /\ corr_pc = "logging"
    /\ debug_trace = <<>>

\* The state of the outcome variables when they are not in use.
OutIdle ==
    /\ transcript_pieces = <<>>
    /\ outcome = [status |-> PASSED_LC, summary |-> NO_STATUS_SUMMARY]
    /\ out_pc = "input"

\* The state of the report variables when they are not in use.
RepIdle ==
    /\ report_pieces = <<>>
    /\ report = <<>>
    /\ rep_pc = "input"

\* The handler processes the host runs side by side.
Procs ==
    {"h1", "h2"}

\* The local variables of a handler process that has no event.
IdleRun ==
    [pc |-> "idle", n |-> 0, stdin |-> "object", agent_id |-> <<>>,
     parent_path |-> "", agent_path |-> "", agent_log |-> <<>>,
     task_info |-> EmptyRecord, task_id |-> <<>>, report_type |-> <<>>,
     transcript |-> <<>>, report_existed |-> FALSE, signal_existed |-> FALSE,
     report_saved |-> FALSE, signal_saved |-> FALSE, output |-> [kind |-> "none"]]

\* The state of the handler variables when they are not in use.
MainIdle ==
    /\ reports = <<>>
    /\ signals = <<>>
    /\ writes = <<>>
    /\ run = [p \in Procs |-> IdleRun]
    /\ runs_started = 0

(***************************************************************************)
(* Workflow-context extraction: a prompt is written piece by piece, then    *)
(* parsed.                                                                  *)
(***************************************************************************)
\* The longest prompt, in pieces.
MaxPromptPieces ==
    6

\* The pieces prompts are written from.
PromptPieces ==
    { TASK_ID_MARK,
      REPORT_TYPE_MARK,
      HASHES \o <<" ">> \o OUTPUT_WORD \o <<"\n">>,
      <<" ">>,
      <<"U+0060">>,
      <<"a">> }

\* The prompt written so far.
Prompt ==
    Concat(prompt_pieces)

CtxInit ==
    CtxIdle /\ CorrIdle /\ OutIdle /\ RepIdle /\ MainIdle

\* The author of the prompt appends one piece.
WritePrompt(w) ==
    /\ ctx_pc = "input"
    /\ Len(prompt_pieces) < MaxPromptPieces
    /\ prompt_pieces' = Append(prompt_pieces, w)
    /\ UNCHANGED <<ctx, ctx_pc, io_out>>
    /\ UNCHANGED corr_vars
    /\ UNCHANGED out_vars
    /\ UNCHANGED rep_vars
    /\ UNCHANGED main_vars

\* ctx = parse_workflow_context(prompt)
ParseContext ==
    /\ ctx_pc = "input"
    /\ ctx' = parse_workflow_context(Prompt)
    /\ ctx_pc' = "done"
    /\ UNCHANGED <<prompt_pieces, io_out>>
    /\ UNCHANGED corr_vars
    /\ UNCHANGED out_vars
    /\ UNCHANGED rep_vars
    /\ UNCHANGED main_vars

CtxNext ==
    \/ \E w \in PromptPieces : WritePrompt(w)
    \/ ParseContext

SpecCtx ==
    CtxInit /\ [][CtxNext]_vars

(***************************************************************************)
(* Correlation: the host appends lines to the parent log; the completion    *)
(* handler resolves a worker identifier against it.                         *)
(***************************************************************************)
\* The longest log, in lines.
MaxLogLines ==
    3

\* Correlation tokens (tool_use ids).
Tokens ==
    {"t1", "t2"}

\* Worker identifiers: "7" occurs inside "71".
ID_7 ==
    <<"7">>
ID_71 ==
    <<"7", "1">>
ID_9 ==
    <<"9">>

\* The identifiers the handler asks for; <<>> is the empty identifier.
AgentIds ==
    {<<>>, ID_7, ID_71, ID_9}

\* Roles: one of the family, one outside it.
FAMILY_ROLE ==
    FAMILY_PREFIX \o <<"p">>
OTHER_ROLE ==
    <<"g", "p">>

\* Input texts: two with both markers, one without reportType:, one whose
\* reportType: is followed by nothing.
PROMPT_A ==
    TASK_ID_MARK \o <<"a", " ">> \o REPORT_TYPE_MARK \o <<"x">>
PROMPT_B ==
    TASK_ID_MARK \o <<"b", " ">> \o REPORT_TYPE_MARK \o <<"y">>
PROMPT_NO_SLOT ==
    TASK_ID_MARK \o <<"a", " ">>
PROMPT_NO_WORD ==
    TASK_ID_MARK \o <<"a", " ">> \o REPORT_TYPE_MARK

Spawn(id, name, role, text) ==
    [type |-> "tool_use", id |-> id, name |-> name, input_ok |-> TRUE,
     subagent_type |-> role, prompt |-> text]

\* A tool_use item whose "input" is a string.
SpawnBadInput(id) ==
    [type |-> "tool_use", id |-> id, name |-> TASK_TOOL, input_ok |-> FALSE,
     subagent_type |-> <<>>, prompt |-> <<>>]

Ack(id, text) ==
    [type |-> "tool_result", tool_use_id |-> id, text |-> text]

Record(items, agentId) ==
    [kind |-> "record", message_ok |-> TRUE, content_ok |-> TRUE,
     content |-> items, agentId |-> agentId]

\* The lines a record that is not well-formed can be: unparsable text, a JSON
\* value that is no object, an object whose message is a string, whose
\* message.content is a string, whose tool_use input is a string.
MalformedLines ==
    { [kind |-> "garbage"],
      [kind |-> "nonobject"],
      [kind |-> "record", message_ok |-> FALSE, content_ok |-> TRUE,
       content |-> <<>>, agentId |-> <<>>],
      [kind |-> "record", message_ok |-> TRUE, content_ok |-> FALSE,
       content |-> <<>>, agentId |-> <<>>],
      Record(<<SpawnBadInput("t2")>>, <<>>) }

\* The lines logs are written from.
LogLines ==
    { Record(<<Spawn("t1", TASK_TOOL, FAMILY_ROLE, PROMPT_A)>>, <<>>),
      Record(<<Spawn("t2", TASK_TOOL, FAMILY_ROLE, PROMPT_B)>>, <<>>),
      Record(<<Spawn("t1", TASK_TOOL, FAMILY_ROLE, PROMPT_B)>>, <<>>),
      Record(<<Spawn("t1", TASK_TOOL, FAMILY_ROLE, PROMPT_A),
               Spawn("t2", TASK_TOOL, FAMILY_ROLE, PROMPT_B)>>, <<>>),
      Record(<<Spawn("t2", TASK_TOOL, OTHER_ROLE, PROMPT_A)>>, <<>>),
      Record(<<Spawn("t2", TASK_TOOL, FAMILY_ROLE, PROMPT_NO_SLOT)>>, <<>>),
      Record(<<Spawn("t2", TASK_TOOL, FAMILY_ROLE, PROMPT_NO_WORD)>>, <<>>),
      Record(<<Spawn("t2", "Bash", FAMILY_ROLE, PROMPT_A)>>, <<>>),
      Record(<<Ack("t1", AGENT_ID_LABEL \o ID_7)>>, <<>>),
      Record(<<Ack("t1", AGENT_ID_LABEL \o ID_71)>>, <<>>),
      Record(<<Ack("t2", AGENT_ID_LABEL \o ID_7)>>, <<>>),
      Record(<<Ack("t2", AGENT_ID_LABEL \o ID_71)>>, <<>>),
      Record(<<Ack("t1", <<"o", "k">>)>>, ID_7),
      Record(<<Ack("t1", AGENT_ID_LABEL \o ID_9)>>, <<>>),
      Record(<<Ack("t1", AGENT_ID_LABEL \o ID_9)>>, ID_7),
      Record(<<Ack("t1", AGENT_ID_LABEL \o ID_7),
               Ack("t2", AGENT_ID_LABEL \o ID_9)>>, ID_7),
      [kind |-> "blank"] }
    \cup MalformedLines

\* The paths the handler may pass: the parent log, no file, a path that
\* cannot be opened.
Paths ==
    {"log", "missing", "unreadable"}

CorrInit ==
    CtxIdle /\ CorrIdle /\ OutIdle /\ RepIdle /\ MainIdle

\* The host appends one line to the parent log.
AppendLine(l) ==
    /\ corr_pc = "logging"
    /\ Len(log) < MaxLogLines
    /\ log' = Append(log, l)
    /\ UNCHANGED <<call, result, corr_pc, debug_trace>>
    /\ UNCHANGED ctx_vars
    /\ UNCHANGED out_vars
    /\ UNCHANGED rep_vars
    /\ UNCHANGED main_vars

\* What the writes to the debug trace of one call can do: ok[1] tells whether
\* the write of lines 294-305 succeeds, ok[2] whether the write of the match
\* or of the fallback (lines 320-326, 333-339) does.
TraceOutcomes ==
    [1..2 -> BOOLEAN]

\* task_info = find_task_call_for_agent(parent_transcript_path, agent_id)
Resolve(path, id, ok) ==
    /\ corr_pc = "logging"
    /\ call' = [path |-> path, agent_id |-> id]
    /\ LET r == find_task_call_traced(path, log, id, ok)
       IN  /\ result' = r.result
           /\ debug_trace' = r.written
    /\ corr_pc' = "done"
    /\ UNCHANGED log
    /\ UNCHANGED ctx_vars
    /\ UNCHANGED out_vars
    /\ UNCHANGED rep_vars
    /\ UNCHANGED main_vars

CorrNext ==
    \/ \E l \in LogLines : AppendLine(l)
    \/ \E path \in Paths : \E id \in AgentIds : \E ok \in TraceOutcomes :
          Resolve(path, id, ok)

SpecCorr ==
    CorrInit /\ [][CorrNext]_vars

(***************************************************************************)
(* Outcome extraction: the output text of a worker is written piece by     *)
(* piece, then parsed.                                                      *)
(***************************************************************************)
\* The longest transcript, in pieces.
MaxTranscriptPieces ==
    4

\* The length of the long run of characters among the pieces.
LongRunLen ==
    201

LONG_RUN ==
    [i \in 1..LongRunLen |-> "x"]

\* The status word written with two long s.
PASSED_LONG_S ==
    <<"P", "A", "U+017F", "U+017F", "E", "D">>

\* The pieces transcripts are written from.
TranscriptPieces ==
    { STATUS_MARK,
      PASSED_UC,
      FAILED_LC,
      PASSED_LONG_S,
      failure_indicators[1],
      <<" ">>,
      <<"\n">>,
      LONG_RUN }

\* The transcript written so far.
Transcript ==
    Concat(transcript_pieces)

OutInit ==
    CtxIdle /\ CorrIdle /\ OutIdle /\ RepIdle /\ MainIdle

\* The worker writes one piece of output.
WriteTranscript(w) ==
    /\ out_pc = "input"
    /\ Len(transcript_pieces) < MaxTranscriptPieces
    /\ transcript_pieces' = Append(transcript_pieces, w)
    /\ UNCHANGED <<outcome, out_pc>>
    /\ UNCHANGED ctx_vars
    /\ UNCHANGED corr_vars
    /\ UNCHANGED rep_vars
    /\ UNCHANGED main_vars

\* status, summary = parse_status_from_transcript(transcript)
ParseStatus ==
    /\ out_pc = "input"
    /\ outcome' = parse_status_from_transcript(Transcript)
    /\ out_pc' = "done"
    /\ UNCHANGED transcript_pieces
    /\ UNCHANGED ctx_vars
    /\ UNCHANGED corr_vars
    /\ UNCHANGED rep_vars
    /\ UNCHANGED main_vars

OutNext ==
    \/ \E w \in TranscriptPieces : WriteTranscript(w)
    \/ ParseStatus

SpecOut ==
    OutInit /\ [][OutNext]_vars

(***************************************************************************)
(* Report extraction: the output text of a worker is written piece by      *)
(* piece, then its markdown sections are extracted.                         *)
(***************************************************************************)
\* The longest report text, in pieces.
MaxReportPieces ==
    4

\* The pieces report texts are written from: a second-level heading line, a
\* top-level heading line, a deeper heading line, a line of text, a blank
\* line, and the characters headings are made of.
ReportPieces ==
    { <<"#", "#", " ", "a", "\n">>,
      <<"#", " ", "b", "\n">>,
      <<"#", "#", "#", " ", "c", "\n">>,
      <<"d", "\n">>,
      <<"\n">>,
      <<" ">>,
      <<"#", "#">>,
      <<"#">> }

\* The report text written so far.
ReportText ==
    Concat(report_pieces)

RepInit ==
    CtxIdle /\ CorrIdle /\ OutIdle /\ RepIdle /\ MainIdle

\* The worker writes one piece of output.
WriteReportText(w) ==
    /\ rep_pc = "input"
    /\ Len(report_pieces) < MaxReportPieces
    /\ report_pieces' = Append(report_pieces, w)
    /\ UNCHANGED <<report, rep_pc>>
    /\ UNCHANGED ctx_vars
    /\ UNCHANGED corr_vars
    /\ UNCHANGED out_vars
    /\ UNCHANGED main_vars

\* markdown_content = extract_markdown_sections(str(transcript))
ExtractReport ==
    /\ rep_pc = "input"
    /\ report' = extract_markdown_sections(ReportText)
    /\ rep_pc' = "done"
    /\ UNCHANGED report_pieces
    /\ UNCHANGED ctx_vars
    /\ UNCHANGED corr_vars
    /\ UNCHANGED out_vars
    /\ UNCHANGED main_vars

RepNext ==
    \/ \E w \in ReportPieces : WriteReportText(w)
    \/ ExtractReport

SpecRep ==
    RepInit /\ [][RepNext]_vars

(***************************************************************************)
(* The injection hook and the completion handler on one prompt: the prompt *)
(* is written, the hook runs when the worker is spawned with it, and the    *)
(* handler parses the same prompt when the worker completes.                *)
(***************************************************************************)
\* The roles a spawn declares.
SpawnRoles ==
    {FAMILY_ROLE, OTHER_ROLE}

\* The hook runs on the spawn of a worker of role subagent_type.
InjectContract(subagent_type) ==
    /\ ctx_pc = "input"
    /\ io_out' = InjectionHook(subagent_type, Prompt)
    /\ ctx_pc' = "spawned"
    /\ UNCHANGED <<prompt_pieces, ctx>>
    /\ UNCHANGED corr_vars
    /\ UNCHANGED out_vars
    /\ UNCHANGED rep_vars
    /\ UNCHANGED main_vars

\* The worker completes: ctx = parse_workflow_context(prompt) of the handler.
ParseContextOnCompletion ==
    /\ ctx_pc = "spawned"
    /\ ctx' = parse_workflow_context(Prompt)
    /\ ctx_pc' = "done"
    /\ UNCHANGED <<prompt_pieces, io_out>>
    /\ UNCHANGED corr_vars
    /\ UNCHANGED out_vars
    /\ UNCHANGED rep_vars
    /\ UNCHANGED main_vars

IoNext ==
    \/ \E w \in PromptPieces : WritePrompt(w)
    \/ \E r \in SpawnRoles : InjectContract(r)
    \/ ParseContextOnCompletion

SpecIo ==
    CtxInit /\ [][IoNext]_vars

(***************************************************************************)
(* The completion handler (auto-save-signal-on-stop.py, main): the host     *)
(* dispatches completion events to handler processes that run side by side  *)
(* over one parent log and one store of reports and signals.                *)
(***************************************************************************)
\* The number of completion events the host dispatches.
MaxRuns ==
    2

\* An entry of a worker's log whose content is a string.
StrEntry(type, text) ==
    [kind |-> "record", type |-> type, is_str |-> TRUE, text |-> text,
     items |-> <<>>]

\* An entry of a worker's log whose content is a list of items.
ListEntry(type, items) ==
    [kind |-> "record", type |-> type, is_str |-> FALSE, text |-> <<>>,
     items |-> items]

TextItem(text) ==
    [type |-> "text", text |-> text]

\* Output texts of workers.
OUTPUT_SECTION ==
    <<"#", "#", " ", "s">>
OUTPUT_PASSED ==
    STATUS_MARK \o <<" ">> \o PASSED_UC
OUTPUT_ERROR ==
    <<"e", "r", "r", "o", "r", ":", " ", "x">>

\* The logs of workers: with the prompt A and a report that passes, with the
\* prompt B and an error, without a prompt, and one json.loads reads as a
\* value that is no object.
AGENT_LOG_A ==
    << StrEntry("user", PROMPT_A),
       ListEntry("assistant", <<TextItem(OUTPUT_SECTION), TextItem(OUTPUT_PASSED)>>) >>
AGENT_LOG_B ==
    << StrEntry("user", PROMPT_B), StrEntry("assistant", OUTPUT_ERROR) >>
AGENT_LOG_NO_PROMPT ==
    << StrEntry("user", PROMPT_NO_SLOT), StrEntry("assistant", OUTPUT_SECTION) >>
AGENT_LOG_BROKEN ==
    << StrEntry("user", PROMPT_A),
       [kind |-> "nonobject", type |-> "", is_str |-> TRUE, text |-> <<>>,
        items |-> <<>>] >>

\* The parent logs: the workers 7 and 9 (the spawn of 7 is the last one), the
\* workers 71 and 7 (the link of 71 comes first), and a spawn outside the
\* family.
PARENT_LOG_7_9 ==
    << Record(<<Spawn("t2", TASK_TOOL, FAMILY_ROLE, PROMPT_B),
                Spawn("t1", TASK_TOOL, FAMILY_ROLE, PROMPT_A)>>, <<>>),
       Record(<<Ack("t1", AGENT_ID_LABEL \o ID_7)>>, <<>>),
       Record(<<Ack("t2", AGENT_ID_LABEL \o ID_9)>>, <<>>) >>
PARENT_LOG_71_7 ==
    << Record(<<Spawn("t1", TASK_TOOL, FAMILY_ROLE, PROMPT_A),
                Spawn("t2", TASK_TOOL, FAMILY_ROLE, PROMPT_B)>>, <<>>),
       Record(<<Ack("t2", AGENT_ID_LABEL \o ID_71)>>, <<>>),
       Record(<<Ack("t1", AGENT_ID_LABEL \o ID_7)>>, <<>>) >>
PARENT_LOG_OTHER ==
    << Record(<<Spawn("t1", TASK_TOOL, OTHER_ROLE, PROMPT_A)>>, <<>>),
       Record(<<Ack("t1", AGENT_ID_LABEL \o ID_7)>>, <<>>) >>

MainLogs ==
    {PARENT_LOG_7_9, PARENT_LOG_71_7, PARENT_LOG_OTHER}

\* A completion event: what stdin holds, and when it is a JSON object its
\* agent_id, transcript_path and agent_transcript_path, with the lines of the
\* worker's log the path names.
Event(stdin, agent_id, parent_path, agent_path, agent_log) ==
    [stdin |-> stdin, agent_id |-> agent_id, parent_path |-> parent_path,
     agent_path |-> agent_path, agent_log |-> agent_log]

Events ==
    { Event("object", ID_7, "log", "alog", AGENT_LOG_A),
      Event("object", ID_7, "log", "alog", AGENT_LOG_NO_PROMPT),
      Event("object", ID_71, "log", "alog", AGENT_LOG_B),
      Event("object", ID_9, "log", "alog", AGENT_LOG_BROKEN),
      Event("object", ID_7, "missing", "alog", AGENT_LOG_A),
      Event("object", ID_7, "", "", <<>>),
      Event("garbage", <<>>, "", "", <<>>),
      Event("nonobject", <<>>, "", "", <<>>) }

\* What a write to the store can do: succeed, fail in open (the save returns
\* False), or raise in mkdir, outside the try of the save.
WriteOutcomes ==
    {"ok", "failed", "raised"}

\* The (task, slot) of a run.
KeyOf(r) ==
    <<r.task_id, r.report_type>>

\* The store s after value v was written under key k.
Stored(s, k, v) ==
    [x \in DOMAIN s \cup {k} |-> IF x = k THEN v ELSE s[x]]

\* What the steps of main up to the parse of the workflow context (lines
\* 424-503) make of an event e over the parent log lines: the run stops with
\* an output, stops with an uncaught exception, or goes on with a (task,
\* slot) and a transcript.
Resolved(e, lines) ==
    LET stop      == [pc |-> "done", output |-> EmptyOutput,
                      task_info |-> EmptyRecord, task_id |-> <<>>,
                      report_type |-> <<>>, transcript |-> <<>>]
        task_info == find_task_call_for_agent(e.parent_path, lines, e.agent_id).value
        agent_data == parse_agent_transcript(e.agent_path, e.agent_log)
        prompt    == ChoosePrompt(agent_data, task_info)
        c         == parse_workflow_context(prompt)
    IN  IF e.stdin = "garbage"
        THEN stop
        ELSE IF e.stdin = "nonobject"
        THEN [stop EXCEPT !.pc = "crashed", !.output = [kind |-> "none"]]
        ELSE IF e.parent_path = "" /\ e.agent_path = ""
        THEN stop
        ELSE IF ~IsFamilyRole(task_info.subagent_type)
        THEN [stop EXCEPT !.task_info = task_info]
        ELSE IF prompt = <<>>
        THEN [stop EXCEPT !.task_info = task_info]
        ELSE IF ContextMissing(c)
        THEN [stop EXCEPT !.task_info = task_info]
        ELSE [pc |-> "check_report", output |-> [kind |-> "none"],
              task_info |-> task_info, task_id |-> c.task_id,
              report_type |-> c.report_type,
              transcript |-> agent_data.transcript]

MainInit ==
    /\ CtxIdle /\ OutIdle /\ RepIdle /\ MainIdle
    /\ log \in MainLogs
    /\ call = [path |-> "log", agent_id |-> <<>>]
    /\ result = [raised |-> FALSE, value |-> EmptyRecord]
    /\ corr_pc = "logging"
    /\ debug_trace = <<>>

\* The frame of every step of a handler process.
MainFrame ==
    /\ UNCHANGED ctx_vars
    /\ UNCHANGED corr_vars
    /\ UNCHANGED out_vars
    /\ UNCHANGED rep_vars

\* The host starts the handler in process p for the event e.
Dispatch(p, e) ==
    /\ run[p].pc \in {"idle", "done", "crashed"}
    /\ runs_started < MaxRuns
    /\ runs_started' = runs_started + 1
    /\ run' = [run EXCEPT ![p] =
                 [IdleRun EXCEPT !.pc = "received", !.n = runs_started + 1,
                                 !.stdin = e.stdin, !.agent_id = e.agent_id,
                                 !.parent_path = e.parent_path,
                                 !.agent_path = e.agent_path,
                                 !.agent_log = e.agent_log]]
    /\ UNCHANGED <<reports, signals, writes>>
    /\ MainFrame

\* Lines 424-503: read the event, find the invocation, read the worker's log,
\* parse the workflow context.
ResolveContext(p) ==
    /\ run[p].pc = "received"
    /\ LET r == Resolved(run[p], log)
       IN  run' = [run EXCEPT ![p].pc = r.pc, ![p].output = r.output,
                              ![p].task_info = r.task_info,
                              ![p].task_id = r.task_id,
                              ![p].report_type = r.report_type,
                              ![p].transcript = r.transcript]
    /\ UNCHANGED <<reports, signals, writes, runs_started>>
    /\ MainFrame

\* report_existed = report_file.exists() (line 510)
CheckReport(p) ==
    /\ run[p].pc = "check_report"
    /\ run' = [run EXCEPT ![p].pc = "check_signal",
                          ![p].report_existed = (KeyOf(run[p]) \in DOMAIN reports)]
    /\ UNCHANGED <<reports, signals, writes, runs_started>>
    /\ MainFrame

\* signal_existed = signal_file.exists() (line 511)
CheckSignal(p) ==
    /\ run[p].pc = "check_signal"
    /\ run' = [run EXCEPT ![p].pc = "save_report",
                          ![p].signal_existed = (KeyOf(run[p]) \in DOMAIN signals)]
    /\ UNCHANGED <<reports, signals, writes, runs_started>>
    /\ MainFrame

\* Lines 514-515 with save_report: extract the report and write it; o is what
\* the store does.
SaveReport(p, o) ==
    /\ run[p].pc = "save_report"
    /\ LET k == KeyOf(run[p])
           v == extract_markdown_sections(run[p].transcript)
       IN  /\ reports' = IF o = "ok" THEN Stored(reports, k, v) ELSE reports
           /\ writes' = Append(writes, [n |-> run[p].n, kind |-> "report",
                                        key |-> k, outcome |-> o,
                                        existed |-> (k \in DOMAIN reports),
                                        text |-> v, summary |-> <<>>])
    /\ run' = [run EXCEPT ![p].pc = IF o = "raised" THEN "crashed" ELSE "save_signal",
                          ![p].report_saved = (o = "ok")]
    /\ UNCHANGED <<signals, runs_started>>
    /\ MainFrame

\* Lines 518-519 with save_signal: parse the status and write the signal.
SaveSignal(p, o) ==
    /\ run[p].pc = "save_signal"
    /\ LET k == KeyOf(run[p])
           s == parse_status_from_transcript(run[p].transcript)
           v == SignalData(run[p].task_id, run[p].report_type, s.status, s.summary)
       IN  /\ signals' = IF o = "ok" THEN Stored(signals, k, v) ELSE signals
           /\ writes' = Append(writes, [n |-> run[p].n, kind |-> "signal",
                                        key |-> k, outcome |-> o,
                                        existed |-> (k \in DOMAIN signals),
                                        text |-> s.status,
                                        summary |-> s.summary])
    /\ run' = [run EXCEPT ![p].pc = IF o = "raised" THEN "crashed" ELSE "respond",
                          ![p].signal_saved = (o = "ok")]
    /\ UNCHANGED <<reports, runs_started>>
    /\ MainFrame

\* Lines 522-548: print the result.
Respond(p) ==
    /\ run[p].pc = "respond"
    /\ run' = [run EXCEPT ![p].pc = "done",
                          ![p].output =
                             ResultOutput(run[p].report_saved, run[p].signal_saved,
                                          run[p].report_existed, run[p].signal_existed,
                                          run[p].report_type,
                                          parse_status_from_transcript(run[p].transcript).status)]
    /\ UNCHANGED <<reports, signals, writes, runs_started>>
    /\ MainFrame

MainNext ==
    \/ \E p \in Procs, e \in Events : Dispatch(p, e)
    \/ \E p \in Procs : ResolveContext(p)
    \/ \E p \in Procs : CheckReport(p)
    \/ \E p \in Procs : CheckSignal(p)
    \/ \E p \in Procs, o \in WriteOutcomes : SaveReport(p, o)
    \/ \E p \in Procs, o \in WriteOutcomes : SaveSignal(p, o)
    \/ \E p \in Procs : Respond(p)

SpecMain ==
    MainInit /\ [][MainNext]_vars

(***************************************************************************)
(* Claims about find_task_call_for_agent.                                  *)
(***************************************************************************)
\* The items of the records of a log, in log order.
RECURSIVE LogItems(_)
LogItems(lines) ==
    IF lines = <<>>
    THEN <<>>
    ELSE (IF Head(lines).kind = "record" THEN Head(lines).content ELSE <<>>)
         \o LogItems(Tail(lines))

\* A log of well-formed records: every line is blank or a JSON object whose
\* fields have the expected types.
WellFormedLog(lines) ==
    \A i \in DOMAIN lines :
        \/ lines[i].kind = "blank"
        \/ /\ lines[i].kind = "record"
           /\ lines[i].message_ok
           /\ lines[i].content_ok
           /\ \A k \in DOMAIN lines[i].content :
                 lines[i].content[k].type = "tool_use"
                    => lines[i].content[k].input_ok

\* A spawn action of the expected role family that carries both markers.
IsFamilySpawn(item) ==
    /\ item.type = "tool_use"
    /\ item.name = "Task"
    /\ StartsWith(item.subagent_type, FAMILY_PREFIX)
    /\ Contains(item.prompt, TASK_ID_MARK)
    /\ Contains(item.prompt, REPORT_TYPE_MARK)

\* The spawn actions of the expected role family of a log, in log order.
FamilySpawns(lines) ==
    SelectSeq(LogItems(lines), IsFamilySpawn)

\* The acknowledgement items of a log, in log order.
IsAck(item) ==
    item.type = "tool_result"

Acks(lines) ==
    SelectSeq(LogItems(lines), IsAck)

\* The invocation record of a spawn action.
InvocationOf(item) ==
    [subagent_type |-> item.subagent_type, prompt |-> item.prompt]

\* Whether some entry of the log carries identifier id: in the text of a
\* tool_result item or in the toolUseResult of a record.
SomeEntryCarries(lines, id) ==
    \/ \E i \in DOMAIN Acks(lines) : Contains(Acks(lines)[i].text, id)
    \/ \E i \in DOMAIN lines :
          lines[i].kind = "record" /\ Contains(lines[i].agentId, id)

\* The spawn actions of the expected family carry pairwise distinct tokens.
DistinctTokens(lines) ==
    LET sp == FamilySpawns(lines)
    IN  \A i, j \in DOMAIN sp : i # j => sp[i].id # sp[j].id

\* The worker identifier an acknowledgement text "agentId: <id>" carries.
WorkerIdOf(text) ==
    From(text, Len(AGENT_ID_LABEL) + 1)

\* A log of N >= 2 spawns of the family with distinct tokens, each with its
\* own completion link: one acknowledgement item with its token, whose text is
\* "agentId: <id>", the ids being non-empty and pairwise distinct, and no
\* other acknowledgement.
DistinctLinks(lines) ==
    LET sp == FamilySpawns(lines)
        ak == Acks(lines)
    IN  /\ WellFormedLog(lines)
        /\ Len(sp) >= 2
        /\ DistinctTokens(lines)
        /\ Len(ak) = Len(sp)
        /\ \A i \in DOMAIN sp : \E k \in DOMAIN ak : ak[k].tool_use_id = sp[i].id
        /\ \A k \in DOMAIN ak :
              /\ StartsWith(ak[k].text, AGENT_ID_LABEL)
              /\ WorkerIdOf(ak[k].text) # <<>>
        /\ \A k, l \in DOMAIN ak :
              k # l => WorkerIdOf(ak[k].text) # WorkerIdOf(ak[l].text)
        /\ \A i \in DOMAIN lines :
              lines[i].kind = "record" => lines[i].agentId = <<>>

\* C1: in a log of N >= 2 spawns of the family, each with its own distinct
\* completion link, the identifier of every worker resolves to the invocation
\* whose token its acknowledgement names, whatever the order of the entries
\* and whatever the identifiers are.
C1_EachWorkerResolvesToItsSpawn ==
    (corr_pc = "done" /\ call.path = "log" /\ DistinctLinks(log)) =>
        LET sp == FamilySpawns(log)
            ak == Acks(log)
        IN  \A i \in DOMAIN sp : \A k \in DOMAIN ak :
                (/\ ak[k].tool_use_id = sp[i].id
                 /\ call.agent_id = WorkerIdOf(ak[k].text))
                => result.value = InvocationOf(sp[i])

\* C2: when no acknowledgement entry of the log carries the queried
\* identifier and the log holds a spawn of the family (the tokens of such
\* spawns being distinct), the call returns the last such spawn of the log.
C2_FallbackIsLastSpawn ==
    (/\ corr_pc = "done"
     /\ call.path = "log"
     /\ ~SomeEntryCarries(log, call.agent_id)
     /\ FamilySpawns(log) # <<>>
     /\ DistinctTokens(log))
    => result.value = InvocationOf(FamilySpawns(log)[Len(FamilySpawns(log))])

\* C3: the call never raises; for a missing file, an unreadable path, an
\* empty log and a log without a spawn of the family it returns the empty
\* record.
C3_NeverRaises ==
    corr_pc = "done" =>
        /\ ~result.raised
        /\ (\/ call.path \in {"missing", "unreadable"}
            \/ log = <<>>
            \/ FamilySpawns(log) = <<>>)
           => result.value = EmptyRecord

\* C3's case: the path could not be opened while the parent log holds a spawn
\* of the family, and the call returned the empty record without raising.
C3_Witness ==
    /\ corr_pc = "done"
    /\ call.path = "unreadable"
    /\ FamilySpawns(log) # <<>>
    /\ ~result.raised
    /\ result.value = EmptyRecord

\* lines with line l inserted before position p.
InsertAt(lines, p, l) ==
    SubSeq(lines, 1, p - 1) \o <<l>> \o SubSeq(lines, p, Len(lines))

\* C4: a line that is no well-formed record is skipped: inserted at any
\* position of the log, it leaves the result of the call unchanged.
C4_MalformedLineSkipped ==
    (corr_pc = "done" /\ call.path = "log") =>
        \A p \in 1..(Len(log) + 1) : \A l \in MalformedLines :
            find_task_call_for_agent("log", InsertAt(log, p, l), call.agent_id)
                = result

\* C5: on a well-formed log with exactly one spawn of the family that carries
\* both markers, the call returns that spawn's role and input text, with or
\* without its completion link in the log.
C5_SingleSpawnReturned ==
    (/\ corr_pc = "done"
     /\ call.path = "log"
     /\ WellFormedLog(log)
     /\ Len(FamilySpawns(log)) = 1)
    => result.value = InvocationOf(FamilySpawns(log)[1])

\* C5's case: the one spawn of the family has no completion link in the log
\* and was returned for a non-empty identifier.
C5_Witness ==
    /\ corr_pc = "done"
    /\ call.path = "log"
    /\ WellFormedLog(log)
    /\ Len(FamilySpawns(log)) = 1
    /\ Acks(log) = <<>>
    /\ call.agent_id = ID_7
    /\ result.value = InvocationOf(FamilySpawns(log)[1])

\* C6: the call returns the empty record or the role and text of a spawn
\* action named Task whose role starts with "backend-toolbox:"; on a log whose
\* spawn actions all have roles outside the family it returns the empty record.
C6_OnlyFamilySpawnsReturned ==
    corr_pc = "done" =>
        LET items  == LogItems(log)
            spawns == {i \in DOMAIN items : items[i].type = "tool_use"}
        IN  /\ \/ result.value = EmptyRecord
               \/ \E i \in spawns :
                     /\ items[i].name = "Task"
                     /\ StartsWith(items[i].subagent_type, FAMILY_PREFIX)
                     /\ result.value = InvocationOf(items[i])
            /\ (\A i \in spawns : ~StartsWith(items[i].subagent_type, FAMILY_PREFIX))
               => result.value = EmptyRecord

\* C6's case: the queried identifier is linked to a spawn outside the family,
\* and the empty record was returned.
C6_Witness ==
    /\ corr_pc = "done"
    /\ call.path = "log"
    /\ call.agent_id = ID_7
    /\ \E i \in DOMAIN LogItems(log) :
          /\ LogItems(log)[i].type = "tool_use"
          /\ LogItems(log)[i].name = "Task"
          /\ LogItems(log)[i].subagent_type = OTHER_ROLE
          /\ \E k \in DOMAIN Acks(log) :
                /\ Acks(log)[k].tool_use_id = LogItems(log)[i].id
                /\ Contains(Acks(log)[k].text, ID_7)
    /\ result.value = EmptyRecord

\* The occurrences of identifier id in a log: the pairs <<i, k>> such that
\* item k of record i is an acknowledgement and id appears in its text or in
\* the toolUseResult.agentId of the record.
Occurrences(lines, id) ==
    {o \in (DOMAIN lines) \X (1..2) :
        /\ lines[o[1]].kind = "record"
        /\ lines[o[1]].message_ok
        /\ lines[o[1]].content_ok
        /\ o[2] \in DOMAIN lines[o[1]].content
        /\ lines[o[1]].content[o[2]].type = "tool_result"
        /\ \/ Contains(lines[o[1]].content[o[2]].text, id)
           \/ Contains(lines[o[1]].agentId, id)}

\* The first occurrence, in log order.
FirstOccurrence(lines, id) ==
    CHOOSE o \in Occurrences(lines, id) :
        \A p \in Occurrences(lines, id) :
            o[1] < p[1] \/ (o[1] = p[1] /\ o[2] <= p[2])

\* The token the first occurrence of id names.
FirstLinkedToken(lines, id) ==
    lines[FirstOccurrence(lines, id)[1]].content[FirstOccurrence(lines, id)[2]].tool_use_id

\* C20: an identifier resolves to the token of its first acknowledgement in
\* the log, and any single occurrence establishes the link, in the text of a
\* tool_result item or in the toolUseResult.agentId of its record: on a
\* well-formed log whose spawns have distinct tokens, when the token so linked
\* is that of a spawn of the family, the call returns that spawn.
C20_FirstOccurrenceLinks ==
    (/\ corr_pc = "done"
     /\ call.path = "log"
     /\ call.agent_id # <<>>
     /\ WellFormedLog(log)
     /\ DistinctTokens(log)
     /\ Occurrences(log, call.agent_id) # {})
    => \A i \in DOMAIN FamilySpawns(log) :
          FamilySpawns(log)[i].id = FirstLinkedToken(log, call.agent_id)
             => result.value = InvocationOf(FamilySpawns(log)[i])

\* C21: every non-empty record the call returns has an input text from which
\* parse_workflow_context extracts both a task_id and a report_type.
C21_ReturnedIsAttributable ==
    (corr_pc = "done" /\ result.value # EmptyRecord) =>
        LET c == parse_workflow_context(result.value.prompt)
        IN  /\ c.task_id # None /\ c.task_id # <<>>
            /\ c.report_type # None /\ c.report_type # <<>>


\* The entries a call writes to the debug trace when every write succeeds.
FullTrace ==
    DebugTrace(call.path, log, call.agent_id, <<TRUE, TRUE>>)

\* C23: the call returns the same record whatever the writes to the debug
\* trace do, each succeeding or failing, and the call leaves the parent log
\* as it is.
C23_TracingDoesNotAffectResult ==
    /\ [](corr_pc = "done" =>
             \A ok \in TraceOutcomes :
                 find_task_call_traced(call.path, log, call.agent_id, ok).result
                     = result)
    /\ [][corr_pc' = "done" => log' = log]_vars

\* A call that returned an invocation although a write to its debug trace
\* failed: the trace holds fewer entries than the call tried to write.
C23_Witness ==
    /\ corr_pc = "done"
    /\ call.path = "log"
    /\ result.value # EmptyRecord
    /\ Len(debug_trace) < Len(FullTrace.written)


\* The tokens the occurrences of identifier id in a log name.
LinkedTokens(lines, id) ==
    {lines[o[1]].content[o[2]].tool_use_id : o \in Occurrences(lines, id)}

\* The tokens of the spawns of the family that carry both markers.
IndexedTokens(lines) ==
    {FamilySpawns(lines)[i].id : i \in DOMAIN FamilySpawns(lines)}

\* Whether every completion link of identifier id names a token that is not
\* an indexed invocation, there being such a link.
LinkOutsideIndex(lines, id) ==
    /\ id # <<>>
    /\ Occurrences(lines, id) # {}
    /\ LinkedTokens(lines, id) \cap IndexedTokens(lines) = {}

MarksIn(text, mark) ==
    {i \in 1..Len(text) : MatchAt(text, i, mark)}

\* The word that follows index a: the run of non-whitespace characters after
\* the whitespace that starts at a.
WordAfter(text, a) ==
    LET b == a + Span(text, a, SpaceChars)
    IN  SubSeq(text, b, b + SpanNot(text, b, SpaceChars) - 1)

\* Whether the reportType: at index r stands under a "## Output" heading: the
\* heading line precedes it, with nothing but whitespace in between.
UnderOutputHeading(text, r) ==
    \E i \in 1..(r - 1) : \E j \in (i + 2)..(r - 1) :
        /\ MatchAt(text, i, HASHES)
        /\ \A k \in (i + 2)..(j - 1) : IsSpace(text[k])
        /\ MatchAt(text, j, OUTPUT_WORD)
        /\ j + Len(OUTPUT_WORD) <= r
        /\ \A k \in (j + Len(OUTPUT_WORD))..(r - 1) : IsSpace(text[k])
        /\ \E k \in (j + Len(OUTPUT_WORD))..(r - 1) : text[k] = "\n"

\* The heading-scoped declarations of text: the reportType: marks under a
\* "## Output" heading that are followed by a value.
HeadingDeclarations(text) ==
    {r \in MarksIn(text, REPORT_TYPE_MARK) :
        /\ UnderOutputHeading(text, r)
        /\ WordAfter(text, r + Len(REPORT_TYPE_MARK)) # <<>>}

\* The inline mentions of text: the reportType: marks followed by a value.
InlineMentions(text) ==
    {r \in MarksIn(text, REPORT_TYPE_MARK) :
        WordAfter(text, r + Len(REPORT_TYPE_MARK)) # <<>>}

\* The value declared at the reportType: mark at index r.
DeclaredAt(text, r) ==
    WordAfter(text, r + Len(REPORT_TYPE_MARK))

\* C7: on a text that holds `TASK_ID: T1` and a `reportType: R1` under a
\* `## Output` heading, wherever the two stand (the TASK_ID token may be the
\* last characters of the text), parse_workflow_context returns task_id T1,
\* with backticks and double quotes around T1 stripped, and report_type R1; on
\* a text with neither marker it returns both fields absent.  Stated for texts
\* that hold each marker once.
C7_BothMarkersParsed ==
    ctx_pc = "done" =>
        LET text == Prompt
            tids == MarksIn(text, TASK_ID_MARK)
            rts  == MarksIn(text, REPORT_TYPE_MARK)
        IN  /\ (/\ Cardinality(tids) = 1
                /\ Cardinality(rts) = 1
                /\ HeadingDeclarations(text) # {})
               => LET t  == CHOOSE i \in tids : TRUE
                      r  == CHOOSE i \in rts : TRUE
                      T1 == StripChars(WordAfter(text, t + Len(TASK_ID_MARK)),
                                       QuoteChars)
                      R1 == DeclaredAt(text, r)
                  IN  T1 # <<>> => ctx = [task_id |-> T1, report_type |-> R1]
            /\ (tids = {} /\ rts = {})
               => ctx = [task_id |-> None, report_type |-> None]

\* C8: when a text holds a reportType: declared under a `## Output` heading
\* and another reportType: mention elsewhere, parse_workflow_context returns
\* the value of the (first) heading-scoped declaration; it returns the value
\* of the first inline mention only when there is no heading-scoped
\* declaration.
C8_HeadingScopedWins ==
    ctx_pc = "done" =>
        LET text == Prompt
            hs   == HeadingDeclarations(text)
            ms   == InlineMentions(text)
        IN  /\ hs # {} => ctx.report_type = DeclaredAt(text, MinOf(hs))
            /\ (hs = {} /\ ms # {}) => ctx.report_type = DeclaredAt(text, MinOf(ms))
            /\ ms = {} => ctx.report_type = None

\* C8's case: an inline mention precedes a heading-scoped declaration of
\* another value, and the heading-scoped value was returned.
C8_Witness ==
    /\ ctx_pc = "done"
    /\ LET text == Prompt
           hs   == HeadingDeclarations(text)
           ms   == InlineMentions(text)
       IN  /\ hs # {}
           /\ MinOf(ms) < MinOf(hs)
           /\ DeclaredAt(text, MinOf(ms)) # DeclaredAt(text, MinOf(hs))
           /\ ctx.report_type = DeclaredAt(text, MinOf(hs))


\* C26: whenever the injection hook put the contract before a prompt, naming
\* the task_id and the report_type its parse found, the handler's
\* parse_workflow_context of the same prompt finds the same task_id and the
\* same report_type.
C26_HookAndHandlerAgree ==
    (ctx_pc = "done" /\ io_out.kind = "contract") =>
        /\ ctx.task_id = io_out.task_id
        /\ ctx.report_type = io_out.report_type

\* The two agree on the report type whenever the hook put the contract.
HookAndHandlerAgreeOnReportType ==
    (ctx_pc = "done" /\ io_out.kind = "contract") =>
        ctx.report_type = io_out.report_type

\* The two agree on the task_id when the token has no backtick or double
\* quote and whitespace follows it.
HookAndHandlerAgreeOnPlainTaskId ==
    (/\ ctx_pc = "done"
     /\ io_out.kind = "contract"
     /\ \A k \in DOMAIN io_out.task_id : io_out.task_id[k] \notin QuoteChars
     /\ ctx.task_id # None)
    => ctx.task_id = io_out.task_id

(***************************************************************************)
(* Claims about parse_status_from_transcript.                              *)
(***************************************************************************)
\* The explicit status markers of text: the indices at which "STATUS:"
\* stands, in any letter case, followed by optional whitespace and by PASSED
\* or FAILED, in any letter case.
StatusMarkers(text) ==
    {i \in 1..Len(text) :
        /\ MatchAtCI(text, i, STATUS_MARK)
        /\ LET w == i + Len(STATUS_MARK) + Span(text, i + Len(STATUS_MARK), SpaceChars)
           IN  MatchAtCI(text, w, PASSED_UC) \/ MatchAtCI(text, w, FAILED_UC)}

\* The index at which the status word of the marker at index i starts.
MarkerWordAt(text, i) ==
    i + Len(STATUS_MARK) + Span(text, i + Len(STATUS_MARK), SpaceChars)

\* The status the marker at index i declares.
DeclaredStatus(text, i) ==
    IF MatchAtCI(text, MarkerWordAt(text, i), PASSED_UC)
    THEN PASSED_LC
    ELSE FAILED_LC

\* The failure phrases text holds, in any letter case, as indices of the
\* fixed list.
PhraseHits(text) ==
    {k \in DOMAIN failure_indicators :
        Contains(Lower(text), failure_indicators[k])}

\* The first line of text that holds phrase k, taken without its colon, in
\* any letter case.
FirstLineWith(text, k) ==
    LET word  == RemoveAll(failure_indicators[k], <<":">>)
        lines == Split(text, "\n")
        I     == {i \in DOMAIN lines : Contains(Lower(lines[i]), word)}
    IN  lines[MinOf(I)]

\* C11: when the text holds an explicit status marker, the status is the one
\* the earliest marker declares, whatever failure phrases the text holds.
C11_ExplicitMarkerDecides ==
    out_pc = "done" =>
        LET ms == StatusMarkers(Transcript)
        IN  ms # {} => outcome.status = DeclaredStatus(Transcript, MinOf(ms))

\* Up to letter case, the status is the one the earliest marker declares.
ExplicitMarkerDecidesUpToCase ==
    out_pc = "done" =>
        LET ms == StatusMarkers(Transcript)
        IN  ms # {} =>
                Upper(outcome.status)
                    = Upper(DeclaredStatus(Transcript, MinOf(ms)))

\* The index at which the line that holds index i starts.
LineStart(text, i) ==
    LET N == {j \in 1..(i - 1) : text[j] = "\n"}
    IN  IF N = {} THEN 1 ELSE MaxOf(N) + 1

\* The index behind the last character of the line that holds index i.
LineEnd(text, i) ==
    LET N == {j \in i..Len(text) : text[j] = "\n"}
    IN  IF N = {} THEN Len(text) + 1 ELSE MinOf(N)

\* The text that follows the marker at index i on the line of its status
\* word, trimmed.
FollowingMarker(text, i) ==
    LET e == MarkerWordAt(text, i) + Len(PASSED_UC)
    IN  Strip(SubSeq(text, e, LineEnd(text, e) - 1))

\* The line immediately before the line of the marker at index i, trimmed;
\* empty when the marker stands on the first line.
PrecedingLine(text, i) ==
    LET ls == LineStart(text, i)
    IN  IF ls = 1
        THEN <<>>
        ELSE Strip(SubSeq(text, LineStart(text, ls - 1), ls - 2))

\* The summary the rules give for the earliest marker of text.
MarkerSummary(text) ==
    LET i == MinOf(StatusMarkers(text))
    IN  IF Len(FollowingMarker(text, i)) > 10
        THEN Take(FollowingMarker(text, i), 200)
        ELSE IF PrecedingLine(text, i) # <<>>
        THEN Take(PrecedingLine(text, i), 200)
        ELSE IF DeclaredStatus(text, i) = PASSED_LC
        THEN DEFAULT_PASSED_SUMMARY
        ELSE DEFAULT_FAILED_SUMMARY

\* C12: when the text holds an explicit status marker, the summary is the
\* text that follows the marker on its line when that is longer than 10
\* characters after trimming, else the line immediately before when it is not
\* blank, trimmed, else the default of the status; cut to 200 characters.
C12_SummaryOfExplicitMarker ==
    out_pc = "done" =>
        (StatusMarkers(Transcript) # {}
            => outcome.summary = MarkerSummary(Transcript))

C14_DefaultIsPassed ==
    out_pc = "done" =>
        ((StatusMarkers(Transcript) = {} /\ PhraseHits(Transcript) = {})
            => outcome = [status |-> PASSED_LC, summary |-> NO_STATUS_SUMMARY])

\* C14's case: a text that is not empty, that holds the word "failed" and the
\* mark "STATUS:" but neither a marker nor a failure phrase, was parsed to
\* the default.
C14_Witness ==
    /\ out_pc = "done"
    /\ StatusMarkers(Transcript) = {}
    /\ PhraseHits(Transcript) = {}
    /\ Contains(Transcript, FAILED_LC)
    /\ Contains(Transcript, STATUS_MARK)
    /\ outcome = [status |-> PASSED_LC, summary |-> NO_STATUS_SUMMARY]

\* C10: for every input text, the status returned is exactly "passed" or
\* "failed" and the summary holds at most 200 characters, on every return
\* path.
C10_StatusAndSummaryBounded ==
    out_pc = "done" =>
        /\ outcome.status \in {PASSED_LC, FAILED_LC}
        /\ Len(outcome.summary) <= 200

\* The summary holds at most 200 characters on every return path.
SummaryBounded ==
    out_pc = "done" => Len(outcome.summary) <= 200

(***************************************************************************)
(* Claims about extract_markdown_sections.                                 *)
(***************************************************************************)
\* The lines of the report text.
ReportLines ==
    Split(ReportText, "\n")

\* The indices of the second-level heading lines of lines.
SecondLevelHeadings(lines) ==
    {i \in DOMAIN lines : IsSectionHeading(lines[i])}

\* A top-level heading line: one hash, not followed by a second.
IsTopLevelHeading(line) ==
    StartsWith(line, <<"#">>) /\ ~StartsWith(line, HASHES)

\* Whether line i lies in a run that starts at a second-level heading line
\* and ends before the next top-level heading line.
InRun(lines, i) ==
    \E h \in SecondLevelHeadings(lines) :
        /\ h <= i
        /\ \A k \in (h + 1)..i : ~IsTopLevelHeading(lines[k])

\* The lines of the runs, from line i on.
RECURSIVE RunLines(_, _)
RunLines(lines, i) ==
    IF i > Len(lines)
    THEN <<>>
    ELSE (IF InRun(lines, i) THEN <<lines[i]>> ELSE <<>>)
         \o RunLines(lines, i + 1)

\* C15, as stated: the report body is made of the runs of lines that start at
\* a second-level heading line and extend to the next top-level or
\* second-level heading or the end of the text; a top-level heading line and
\* the lines after it, up to the next second-level heading, are excluded.
C15_ReportIsRunsEndingAtTopLevel ==
    (rep_pc = "done" /\ SecondLevelHeadings(ReportLines) # {})
        => report = Strip(Join(RunLines(ReportLines, 1)))

\* C15, amended: the report body is made of all lines from the first
\* second-level heading line to the end of the text, trimmed: the lines
\* before that heading are excluded; blank lines and heading lines of every
\* level after it, top-level ones included, are kept.
C15_ReportIsFromFirstSection ==
    (rep_pc = "done" /\ SecondLevelHeadings(ReportLines) # {})
        => report = Strip(Join(SubSeq(ReportLines,
                                      MinOf(SecondLevelHeadings(ReportLines)),
                                      Len(ReportLines))))

\* C15's case: a line of text stands before the first second-level heading
\* and a top-level heading line after it; the report leaves out the former
\* and keeps the latter.
C15_Witness ==
    /\ rep_pc = "done"
    /\ SecondLevelHeadings(ReportLines) # {}
    /\ LET h == MinOf(SecondLevelHeadings(ReportLines))
       IN  /\ h > 1
           /\ Strip(ReportLines[1]) # <<>>
           /\ \E k \in (h + 1)..Len(ReportLines) :
                 IsTopLevelHeading(ReportLines[k])
           /\ report = Strip(Join(SubSeq(ReportLines, h, Len(ReportLines))))
           /\ report # Strip(Join(RunLines(ReportLines, 1)))

\* C16: the report is empty if and only if the text is empty; for a text that
\* is not empty and has no second-level heading line, the report is the text,
\* verbatim, between the "## Agent Output" heading and the note that no
\* structured sections were found.
C16_EmptyOnlyForEmptyText ==
    rep_pc = "done" =>
        /\ (report = <<>>) <=> (ReportText = <<>>)
        /\ (ReportText # <<>> /\ SecondLevelHeadings(ReportLines) = {})
              => report = FALLBACK_HEAD \o ReportText \o FALLBACK_NOTE

\* C16's case: a text of hashes and whitespace only, without a second-level
\* heading line, was wrapped.
C16_Witness ==
    /\ rep_pc = "done"
    /\ ReportText # <<>>
    /\ Contains(ReportText, HASHES)
    /\ SecondLevelHeadings(ReportLines) = {}
    /\ report = FALLBACK_HEAD \o ReportText \o FALLBACK_NOTE


(***************************************************************************)
(* Claims about the completion handler (main).                             *)
(***************************************************************************)
\* The runs that got past the steps of lines 424-503.
Resolving ==
    {p \in Procs : run[p].pc \notin {"idle", "received"}}

\* Whether the run of p called the Correlator: stdin held an object and a
\* path was given.
CalledCorrelator(p) ==
    /\ run[p].stdin = "object"
    /\ ~(run[p].parent_path = "" /\ run[p].agent_path = "")

\* The role the Correlator recovers for the run of p.
RecoveredRole(p) ==
    find_task_call_for_agent(run[p].parent_path, log, run[p].agent_id).value.subagent_type

\* The writes of the run of p.
WritesOf(p) ==
    SelectSeq(writes, LAMBDA w : w.n = run[p].n)

\* Whether the worker's own log of the run of p carries a prompt with both
\* markers.
OwnPromptHasMarkers(p) ==
    LET own == parse_agent_transcript(run[p].agent_path, run[p].agent_log).prompt
    IN  Contains(own, TASK_ID_MARK) /\ Contains(own, REPORT_TYPE_MARK)

\* C17: a run whose recovered role is outside the family (the empty role
\* included) ends with the empty result and writes no report and no signal,
\* whatever the worker's own log carries.
C17_ForeignRoleIsNoOp ==
    \A p \in Resolving :
        (CalledCorrelator(p) /\ ~StartsWith(RecoveredRole(p), FAMILY_PREFIX))
        => /\ run[p].pc = "done"
           /\ run[p].output = EmptyOutput
           /\ WritesOf(p) = <<>>

\* A finished run with a role outside the family whose own log carries a
\* prompt with both markers.
C17_Witness ==
    \E p \in Resolving :
        /\ CalledCorrelator(p)
        /\ ~StartsWith(RecoveredRole(p), FAMILY_PREFIX)
        /\ OwnPromptHasMarkers(p)
        /\ run[p].pc = "done"

\* Whether the worker of the run of p has a completion link in the log: an
\* acknowledgement whose text names exactly its identifier.
HasLink(p) ==
    \E k \in DOMAIN Acks(log) : WorkerIdOf(Acks(log)[k].text) = run[p].agent_id

\* The spawn the completion link of the worker of the run of p names.
OwnSpawn(p) ==
    LET ak == Acks(log)
        sp == FamilySpawns(log)
        k  == CHOOSE k \in DOMAIN ak : WorkerIdOf(ak[k].text) = run[p].agent_id
    IN  sp[CHOOSE i \in DOMAIN sp : sp[i].id = ak[k].tool_use_id]

\* The (task, slot) of the worker of the run of p: the one its spawn declares.
OwnKey(p) ==
    LET c == parse_workflow_context(OwnSpawn(p).prompt)
    IN  <<c.task_id, c.report_type>>

\* Two finished runs, one per process, and no other run.
TwoRuns ==
    /\ runs_started = 2
    /\ \A p \in Procs : run[p].pc \in {"done", "crashed"}

\* Whether the run of p ended as the processing of its event alone, over an
\* empty store whose writes have the same outcomes, ends: with the same
\* result, and with the report and the signal it wrote stored under k.
AsAlone(p, k) ==
    LET r == Resolved(run[p], log)
        s == parse_status_from_transcript(r.transcript)
    IN  IF r.pc # "check_report"
        THEN /\ run[p].pc = r.pc
             /\ run[p].output = r.output
             /\ WritesOf(p) = <<>>
        ELSE /\ k = <<r.task_id, r.report_type>>
             /\ run[p].pc = "done" =>
                   run[p].output =
                      ResultOutput(run[p].report_saved, run[p].signal_saved,
                                   FALSE, FALSE, r.report_type, s.status)
             /\ run[p].report_saved =>
                   /\ k \in DOMAIN reports
                   /\ reports[k] = extract_markdown_sections(r.transcript)
             /\ run[p].signal_saved =>
                   /\ k \in DOMAIN signals
                   /\ signals[k] = SignalData(r.task_id, r.report_type,
                                              s.status, s.summary)

\* C18: two runs that interleave, for two workers with distinct completion
\* links and distinct (task, slot) pairs, write under their own (task, slot)
\* only, and each ends as the processing of its event alone ends.
C18_ConcurrentRunsDoNotInteract ==
    (/\ TwoRuns
     /\ DistinctLinks(log)
     /\ \A p \in Procs : CalledCorrelator(p) /\ run[p].parent_path = "log" /\ HasLink(p)
     /\ \A p, q \in Procs : p # q =>
           /\ run[p].agent_id # run[q].agent_id
           /\ OwnKey(p) # OwnKey(q))
    => \A p \in Procs :
           /\ \A i \in DOMAIN WritesOf(p) : WritesOf(p)[i].key = OwnKey(p)
           /\ AsAlone(p, OwnKey(p))

\* The same for two runs that resolved distinct (task, slot) pairs, whatever
\* the links of the log are: each writes under the pair it resolved only and
\* ends as the processing of its event alone ends.
RunsOnDistinctPairsDoNotInteract ==
    (/\ TwoRuns
     /\ \A p, q \in Procs : p # q => KeyOf(run[p]) # KeyOf(run[q]))
    => \A p \in Procs :
           /\ \A i \in DOMAIN WritesOf(p) : WritesOf(p)[i].key = KeyOf(run[p])
           /\ AsAlone(p, KeyOf(run[p]))

\* The runs that went through the persist step: both saves returned.
Persisted ==
    {p \in Procs :
        \/ run[p].pc = "respond"
        \/ run[p].pc = "done" /\ run[p].output.kind \in {"message", "error"}}

\* The output of the worker of the run of p, as its log gives it.
WorkerOutput(p) ==
    parse_agent_transcript(run[p].agent_path, run[p].agent_log).transcript

\* The index in writes of the last write of the given kind under key k that
\* succeeded, 0 when there is none.
LastStored(kind, k) ==
    LET hits == {i \in DOMAIN writes : /\ writes[i].kind = kind
                                       /\ writes[i].key = k
                                       /\ writes[i].outcome = "ok"}
    IN  IF hits = {} THEN 0 ELSE MaxOf(hits)

\* Whether a write of the given kind under key k succeeded before the first
\* write of the run of p.
StoredBefore(p, kind, k) ==
    \E i, j \in DOMAIN writes :
        /\ i < j
        /\ writes[j].n = run[p].n
        /\ writes[i].n # run[p].n
        /\ writes[i].kind = kind /\ writes[i].key = k /\ writes[i].outcome = "ok"

RecoveredCall(p) ==
    find_task_call_for_agent(run[p].parent_path, log, run[p].agent_id).value

\* The prompt the worker's own log of the run of p carries, <<>> when none.
OwnPrompt(p) ==
    parse_agent_transcript(run[p].agent_path, run[p].agent_log).prompt

\* The (task, slot) parse_workflow_context extracts from a text.
PairOf(text) ==
    LET c == parse_workflow_context(text)
    IN  <<c.task_id, c.report_type>>

StoredFrom(p, k) ==
    LET s == parse_status_from_transcript(WorkerOutput(p))
    IN  /\ k \in DOMAIN reports
        /\ reports[k] = extract_markdown_sections(WorkerOutput(p))
        /\ k \in DOMAIN signals
        /\ signals[k] = SignalData(k[1], k[2], s.status, s.summary)

\* Two finished runs, one per process, that persisted a report and a signal
\* under the same (task, slot), every write having succeeded.
TwoRunsOnOnePair ==
    /\ TwoRuns
    /\ \A p \in Procs : /\ run[p].pc = "done"
                        /\ run[p].report_saved
                        /\ run[p].signal_saved
    /\ \A p, q \in Procs : KeyOf(run[p]) = KeyOf(run[q])

\* C25: after any interleaving of two runs that persist under the same
\* (task, slot), the report and the signal stored under it are derived from
\* the output of one and the same worker.
C25_PairStoredFromOneWorker ==
    TwoRunsOnOnePair =>
        \E p \in Procs : StoredFrom(p, KeyOf(run[p]))

\* The same when the writes of the two runs do not interleave: the two
\* writes of one run come before the two writes of the other.
PairStoredFromOneWorkerWhenNotInterleaved ==
    (TwoRunsOnOnePair /\ writes[1].n = writes[2].n) =>
        \E p \in Procs : StoredFrom(p, KeyOf(run[p]))

\* The runs that ended after reaching the persist step.
EndedAfterPersist ==
    {p \in Procs : run[p].pc \in {"done", "crashed"} /\ WritesOf(p) # <<>>}

\* Whether the run of p attempted the report write, then the signal write,
\* and returned the message when both succeeded and otherwise the error that
\* names exactly the parts that failed.
WroteBothAndReported(p) ==
    LET w == WritesOf(p)
        failed == (IF w[1].outcome = "ok" THEN <<>> ELSE <<"report">>)
                  \o (IF w[2].outcome = "ok" THEN <<>> ELSE <<"signal">>)
    IN  /\ Len(w) = 2
        /\ w[1].kind = "report"
        /\ w[2].kind = "signal"
        /\ w[1].key = w[2].key
        /\ IF failed = <<>>
           THEN run[p].output.kind = "message"
           ELSE /\ run[p].output.kind = "error"
                /\ run[p].output.parts = failed

\* C27: a run that reaches the persist step attempts the report write, then
\* the signal write whatever the outcome of the report write, and returns the
\* success message only if both writes succeeded and otherwise the error
\* naming exactly the parts (report, signal) that failed.
C27_BothWritesAttemptedAndReported ==
    \A p \in EndedAfterPersist : WroteBothAndReported(p)

\* The same for the runs in which no write raised: the store either took the
\* write or refused it inside save_report / save_signal.
BothWritesAttemptedAndReportedUnlessRaised ==
    \A p \in EndedAfterPersist :
        (\A i \in DOMAIN WritesOf(p) : WritesOf(p)[i].outcome # "raised")
        => WroteBothAndReported(p)

\* A run whose report write was refused and whose signal write succeeded
\* returned the error that names the report only.
ReportRefusedSignalStored ==
    \E p \in EndedAfterPersist :
        /\ Len(WritesOf(p)) = 2
        /\ WritesOf(p)[1].outcome = "failed"
        /\ WritesOf(p)[2].outcome = "ok"
        /\ run[p].output.kind = "error"
        /\ run[p].output.parts = <<"report">>
====
